---- MODULE Spec2Model ----
(***************************************************************************)
(* A model of the text-to-speech module (TextToSpeechModule and the        *)
(* synthesis pipeline behind it): the parameter resolver normalizeOptions, *)
(* the chunker splitIntoChunks and the request handler.                    *)
(*                                                                         *)
(* Numbers.  speed and pitch are JavaScript numbers.  The model holds them *)
(* as integer counts of quarters (speed 1.0 is 4, pitch 0.25 is 1): every  *)
(* such value, and every product and sum the code forms from it, is an     *)
(* exactly representable double, so the code's arithmetic is exact on them.*)
(* NaN is not among the modelled inputs.                                   *)
(*                                                                         *)
(* Strings.  A string is held run-length encoded: a sequence of runs       *)
(* [c |-> character, n |-> count], n >= 1, adjacent runs of different      *)
(* characters.  The lengths 4000 and 3000 of the code are kept as they are.*)
(***************************************************************************)
EXTENDS Integers, Sequences, FiniteSets, TLC

VARIABLES
    \* TextToSpeechModule: the controls (part_000:147-151)
    text,        \* useState text
    voiceId,     \* useState voiceId
    speed,       \* useState speed, in quarters
    pitch,       \* useState pitch, in quarters
    emotion,     \* useState emotion
    \* TextToSpeechModule: what it shows (part_000:152-157)
    isProcessing,
    progress,
    error,
    audioUrl,
    audioFileName,
    audioDuration,
    \* TextToSpeechModule: the refs (part_000:163-166)
    previousUrlRef,
    engineReadyRef,        \* null, or the state of the promise it holds
    meSpeakRef,
    engineInitializedRef,
    \* The flows of control
    mounted,     \* "rendered", "mounted" (the effects have run), "unmounted"
    initPc,      \* where the async body of initializeEngine stands
    reqs,        \* the calls of handleGenerateAudio, in the order of the clicks
    \* The collaborators
    engineCalls, \* every speak / speakMultipart call made, in order
    engineLoads, \* how many times loadConfig and the voices were loaded
    engineInits, \* how many times the async body of initializeEngine was started
    urlsCreated, \* how many URL.createObjectURL calls were made (the urls are 1, 2, ..)
    urlsRevoked, \* the urls given to URL.revokeObjectURL
    generatedAudio,  \* page.tsx: useState generatedAudio (page.tsx:8)
    edits,       \* how many times the user has changed a control
    \* The results of the pure functions, in the specifications that apply them
    normalized,  \* the value normalizeOptions returned
    parts,       \* the value splitIntoChunks returned
    wavBuffer,   \* the buffer convertWavToMp3 is given
    converted,   \* what convertWavToMp3 did with it
    \* VideoComposer (part_001:64-72)
    mode,
    mediaLibrary,     \* the ids of the media items, in order
    selectedMediaId,
    timeline,         \* the clips, in order
    activeClipIndex,
    isPreviewing,
    previewProgress,
    timeoutsRef,      \* the timers the preview effect has pushed
    rafRef,
    \* The window and crypto of the VideoComposer
    timers,           \* the timers set and neither fired nor cleared
    mediaIds,         \* how many ids onDrop has made
    clipIds,          \* how many ids the clips have been given
    operations        \* how many times the composer has been operated

controlVars == <<text, voiceId, speed, pitch, emotion>>
viewVars == <<isProcessing, progress, error, audioUrl, audioFileName, audioDuration>>
refVars == <<previousUrlRef, engineReadyRef, meSpeakRef, engineInitializedRef>>
flowVars == <<mounted, initPc, reqs>>
worldVars ==
    <<engineCalls, engineLoads, engineInits, urlsCreated, urlsRevoked, generatedAudio, edits>>
pureVars == <<normalized, parts, wavBuffer, converted>>

composerVars ==
    <<mode, mediaLibrary, selectedMediaId, timeline, activeClipIndex, isPreviewing,
      previewProgress, timeoutsRef, rafRef, timers, mediaIds, clipIds, operations>>

vars == <<controlVars, viewVars, refVars, flowVars, worldVars, pureVars, composerVars>>

Null == "null"
Undefined == "undefined"

\* A value that may be absent: None, or Some(x).
None == <<>>
Some(x) == <<x>>

(***************************************************************************)
(* Presets                                                                 *)
(***************************************************************************)

\* part_000:47-119.  An optional field that the literal omits is absent from
\* the record.
VOICE_LIBRARY ==
    << [id |-> "male-deep", voiceId |-> "en/en-wm", speedOffset |-> -35,
        pitchOffset |-> -10, variant |-> "m1"],
       [id |-> "male-neutral", voiceId |-> "en/en-us"],
       [id |-> "male-energetic", voiceId |-> "en/en-n", speedOffset |-> 20,
        pitchOffset |-> 6],
       [id |-> "male-narrative", voiceId |-> "en/en-rp", speedOffset |-> -10],
       [id |-> "female-soft", voiceId |-> "en/en", pitchOffset |-> 8,
        speedOffset |-> -10, variant |-> "f1"],
       [id |-> "female-powerful", voiceId |-> "en/en-sc", speedOffset |-> 15,
        pitchOffset |-> 4],
       [id |-> "female-dramatic", voiceId |-> "en/en-rp", pitchOffset |-> -4,
        variant |-> "f4"],
       [id |-> "female-narrative", voiceId |-> "en/en-us", speedOffset |-> -5,
        variant |-> "f3"] >>

\* part_000:121-128
EMOTIONS ==
    << [id |-> "neutral", pitchDelta |-> 0, speedDelta |-> 0, amplitudeDelta |-> 0],
       [id |-> "happy", pitchDelta |-> 6, speedDelta |-> 12, amplitudeDelta |-> 8],
       [id |-> "sad", pitchDelta |-> -8, speedDelta |-> -20, amplitudeDelta |-> -12],
       [id |-> "intense", pitchDelta |-> 4, speedDelta |-> 10, amplitudeDelta |-> 15],
       [id |-> "mysterious", pitchDelta |-> -6, speedDelta |-> -5, amplitudeDelta |-> -5],
       [id |-> "epic", pitchDelta |-> 8, speedDelta |-> 18, amplitudeDelta |-> 18] >>

DEFAULT_SPEED == 1
DEFAULT_PITCH == 0

VoiceIds == {VOICE_LIBRARY[i].id : i \in DOMAIN VOICE_LIBRARY}
EmotionIds == {EMOTIONS[i].id : i \in DOMAIN EMOTIONS}

\* A number of the code as a count of quarters.
Quarters(x) == 4 * x

\* The initial voice taken one entry too far down the library.
InitialVoiceIdSecond == VOICE_LIBRARY[2].id

\* part_000:148: the voice selected initially.
InitialVoiceId == VOICE_LIBRARY[1].id

\* part_000:151: the emotion selected initially.
InitialEmotion == "neutral"

\* part_000:168-171: VOICE_LIBRARY.find(...) ?? VOICE_LIBRARY[0]
selectedVoice(vid) ==
    IF \E i \in DOMAIN VOICE_LIBRARY : VOICE_LIBRARY[i].id = vid
    THEN VOICE_LIBRARY[CHOOSE i \in DOMAIN VOICE_LIBRARY :
             /\ VOICE_LIBRARY[i].id = vid
             /\ \A j \in 1..(i - 1) : VOICE_LIBRARY[j].id # vid]
    ELSE VOICE_LIBRARY[1]

\* part_000:173-176: EMOTIONS.find(...) ?? EMOTIONS[0]
selectedEmotion(eid) ==
    IF \E i \in DOMAIN EMOTIONS : EMOTIONS[i].id = eid
    THEN EMOTIONS[CHOOSE i \in DOMAIN EMOTIONS :
             /\ EMOTIONS[i].id = eid
             /\ \A j \in 1..(i - 1) : EMOTIONS[j].id # eid]
    ELSE EMOTIONS[1]

(***************************************************************************)
(* Parameter resolver                                                      *)
(***************************************************************************)

\* `rec.field ?? 0` (part_000:632, 639, 640, 650, 651)
OrZero(rec, field) == IF field \in DOMAIN rec THEN rec[field] ELSE 0

\* Math.round of q quarters: the nearest integer, a half rounding up.
MathRound(q) == (q + 2) \div 4

Min2(a, b) == IF a < b THEN a ELSE b
Max2(a, b) == IF a > b THEN a ELSE b

\* A clamp that has lost its upper bound.
clampLowerOnly(min, max, value) == Max2(min, value)

\* part_000:664-666
clamp(min, max, value) == Min2(max, Max2(min, value))

\* normalizeOptions with each term clamped before the next is added.
normalizeOptionsPartial(voice, speedQ, pitchQ, emo) ==
    [ voiceId |-> voice.voiceId,
      variant |-> IF "variant" \in DOMAIN voice THEN voice.variant ELSE Undefined,
      speed |-> clamp(80, 360,
                   clamp(80, 360, MathRound(175 * speedQ))
                     + OrZero(voice, "speedOffset") + OrZero(emo, "speedDelta")),
      pitch |-> clamp(1, 99,
                   clamp(1, 99, MathRound(Quarters(50) + pitchQ * 2))
                     + OrZero(voice, "pitchOffset") + OrZero(emo, "pitchDelta")),
      amplitude |-> clamp(10, 200, 100 + OrZero(emo, "amplitudeDelta")) ]

\* part_000:619-662.  speedQ and pitchQ are the arguments speed and pitch in
\* quarters; the offsets and deltas are integers.
normalizeOptions(voice, speedQ, pitchQ, emo) ==
    LET baseSpeed == 175
        basePitch == 50
        amplitude == 100 + OrZero(emo, "amplitudeDelta")
        resolvedSpeed ==
            clamp(80, 360,
                  MathRound(baseSpeed * speedQ
                            + Quarters(OrZero(voice, "speedOffset"))
                            + Quarters(OrZero(emo, "speedDelta"))))
        resolvedPitch ==
            clamp(1, 99,
                  MathRound(Quarters(basePitch)
                            + (pitchQ * 2)
                            + Quarters(OrZero(voice, "pitchOffset"))
                            + Quarters(OrZero(emo, "pitchDelta"))))
    IN  [ voiceId |-> voice.voiceId,
          variant |-> IF "variant" \in DOMAIN voice THEN voice.variant ELSE Undefined,
          speed |-> resolvedSpeed,
          pitch |-> resolvedPitch,
          amplitude |-> clamp(10, 200, amplitude) ]

(***************************************************************************)
(* Strings, run-length encoded                                             *)
(***************************************************************************)

\* The characters of the modelled texts: a letter, a space and the three
\* characters of the class [.!?] of part_000:673.
Punct == {".", "!", "?"}
White == {" "}

Run(c, n) == [c |-> c, n |-> n]

RECURSIVE StrLen(_)
\* String.prototype.length
StrLen(s) == IF s = <<>> THEN 0 ELSE Head(s).n + StrLen(Tail(s))

\* s + t
StrCat(s, t) ==
    IF s = <<>> THEN t
    ELSE IF t = <<>> THEN s
    ELSE IF s[Len(s)].c = t[1].c
         THEN SubSeq(s, 1, Len(s) - 1)
                \o <<Run(t[1].c, s[Len(s)].n + t[1].n)>>
                \o Tail(t)
         ELSE s \o t

RECURSIVE StrTake(_, _)
\* The first k characters of s (all of s when it is shorter).
StrTake(s, k) ==
    IF k <= 0 \/ s = <<>> THEN <<>>
    ELSE IF Head(s).n <= k
         THEN <<Head(s)>> \o StrTake(Tail(s), k - Head(s).n)
         ELSE <<Run(Head(s).c, k)>>

RECURSIVE StrDrop(_, _)
\* s without its first k characters.
StrDrop(s, k) ==
    IF s = <<>> THEN <<>>
    ELSE IF k <= 0 THEN s
    ELSE IF Head(s).n <= k
         THEN StrDrop(Tail(s), k - Head(s).n)
         ELSE <<Run(Head(s).c, Head(s).n - k)>> \o Tail(s)

\* String.prototype.slice(from, to), 0 <= from <= to
StrSlice(s, from, to) == StrTake(StrDrop(s, from), to - from)

\* String.prototype.trim(): adjacent runs differ, so at most one run of
\* white space leads and at most one trails.
StrTrim(s) ==
    LET a == IF s # <<>> /\ Head(s).c \in White THEN Tail(s) ELSE s
    IN  IF a # <<>> /\ a[Len(a)].c \in White THEN SubSeq(a, 1, Len(a) - 1) ELSE a

RECURSIVE StrJoin(_)
\* The concatenation of a sequence of strings, in order.
StrJoin(ss) == IF ss = <<>> THEN <<>> ELSE StrCat(Head(ss), StrJoin(Tail(ss)))

(***************************************************************************)
(* Chunker                                                                 *)
(***************************************************************************)

RECURSIVE matchFrom(_, _, _)
\* The scan of text.match(/[^.!?]+[.!?]?/g) (part_000:673) over the runs
\* `rest`: `cur` is the run of [^.!?] characters matched so far, `out` the
\* matches found.  A match takes every character outside the class, then at
\* most ONE character of the class; a class character with no match open
\* starts no match and is passed over.
matchFrom(rest, cur, out) ==
    IF rest = <<>>
    THEN IF cur = <<>> THEN out ELSE Append(out, cur)
    ELSE LET r == Head(rest) IN
         IF r.c \in Punct
         THEN IF cur = <<>>
              THEN matchFrom(Tail(rest), <<>>, out)
              ELSE matchFrom(Tail(rest), <<>>, Append(out, StrCat(cur, <<Run(r.c, 1)>>)))
         ELSE matchFrom(Tail(rest), StrCat(cur, <<r>>), out)

\* text.match(/[^.!?]+[.!?]?/g): the matches in order; the code's null (no
\* match at all) is the empty sequence here.
matchSentences(s) == matchFrom(s, <<>>, <<>>)

RECURSIVE chunkFrom(_, _, _, _)
\* The loop of chunkByLength (part_000:700-703).
chunkFrom(s, maxLength, index, chunks) ==
    IF index < StrLen(s)
    THEN chunkFrom(s, maxLength, index + maxLength,
                   Append(chunks, StrSlice(s, index, index + maxLength)))
    ELSE chunks

\* part_000:697-705
chunkByLength(s, maxLength) == chunkFrom(s, maxLength, 0, <<>>)

RECURSIVE forEachSentenceAlone(_, _, _)
\* forEachSentence testing the length of the sentence alone, not that of the
\* buffer with the sentence appended.
forEachSentenceAlone(sentences, chunks, buffer) ==
    IF sentences = <<>> THEN [chunks |-> chunks, buffer |-> buffer]
    ELSE LET sentence == Head(sentences) IN
         IF StrLen(sentence) > 4000
         THEN forEachSentenceAlone(Tail(sentences), Append(chunks, buffer), sentence)
         ELSE forEachSentenceAlone(Tail(sentences), chunks, StrCat(buffer, sentence))

RECURSIVE forEachSentence(_, _, _)
\* part_000:681-688: sentences.forEach, with the chunks and the buffer so far.
forEachSentence(sentences, chunks, buffer) ==
    IF sentences = <<>> THEN [chunks |-> chunks, buffer |-> buffer]
    ELSE LET sentence == Head(sentences) IN
         IF StrLen(StrCat(buffer, sentence)) > 4000
         THEN forEachSentence(Tail(sentences), Append(chunks, buffer), sentence)
         ELSE forEachSentence(Tail(sentences), chunks, StrCat(buffer, sentence))

\* part_000:673-694: the path of a text of more than 4000 characters.
splitLong(s) ==
    LET sentences == matchSentences(s) IN
    IF sentences = <<>> THEN chunkByLength(s, 3000)
    ELSE LET loop == forEachSentence(sentences, <<>>, <<>>)
             chunks == IF StrLen(StrTrim(loop.buffer)) > 0
                       THEN Append(loop.chunks, loop.buffer)
                       ELSE loop.chunks
         IN  SelectSeq(chunks, LAMBDA chunk : StrLen(StrTrim(chunk)) > 0)

\* splitIntoChunks returning the text whole only below 4000 characters.
splitIntoChunksBelow(s) == IF StrLen(s) < 4000 THEN <<s>> ELSE splitLong(s)

\* part_000:668-695
splitIntoChunks(s) == IF StrLen(s) <= 4000 THEN <<s>> ELSE splitLong(s)

(***************************************************************************)
(* The synthesis pipeline behind one request                               *)
(***************************************************************************)

MAX_CHARACTERS == 100000
MP3_BITRATE == 320

\* What engine.speak / engine.speakMultipart returns with rawdata "array":
\* null, or an array of bytes.  The array is held by its length, by the four
\* header fields convertWavToMp3 reads from it (meaningful where the array is
\* long enough to hold them) and by `words`, the 16-bit little-endian words
\* that follow its byte 44.
NullOutput ==
    [isNull |-> TRUE, byteLength |-> 0, channels |-> 0, sampleRate |-> 0,
     bitsPerSample |-> 0, dataLength |-> 0, words |-> <<>>]

Bytes(len, ch, rate, bits, dlen, words) ==
    [isNull |-> FALSE, byteLength |-> len, channels |-> ch, sampleRate |-> rate,
     bitsPerSample |-> bits, dataLength |-> dlen, words |-> words]

EmptyArray == Bytes(0, 0, 0, 0, 0, <<>>)

\* A failure taken for a success with no sound.
ThrownAsSilence(message, ops) ==
    [ok |-> TRUE, error |-> Null, ops |-> ops,
     blob |-> Some([type |-> "audio/mpeg", bytes |-> <<>>]),
     duration |-> Some(<<0, 1>>)]

\* A result of the pipeline that failed with the given error.
Thrown(message, ops) ==
    [ok |-> FALSE, error |-> message, ops |-> ops, blob |-> None, duration |-> None]

\* The value of a number stored in an Int8Array and in a Uint8Array.
ToInt8(x) == ((x + 128) % 256) - 128
ToUint8(x) == x % 256

\* part_000:730-734: new Int16Array(arrayBuffer, byteOffset, length); a
\* fractional length is truncated.
Int16Array(arrayBuffer, byteOffset, length) ==
    SubSeq(arrayBuffer.words, 1, length)

\* part_000:742, 754-755: TypedArray.subarray(begin, end), end clamped to the
\* length of the array.
subarray(array, begin, end) ==
    SubSeq(array, begin + 1, Min2(end, Len(array)))

\* The first half of the samples taken for the left channel, the second half
\* for the right one.
deinterleaveHalves(samples) ==
    LET half == Len(samples) \div 2
    IN  [left |-> [j \in 1..half |-> samples[j]],
         right |-> [j \in 1..half |-> samples[half + j]]]

\* part_000:747-751: the two arrays of samples.length / 2 elements (the
\* length truncated) that the loop fills from the interleaved samples; the
\* writes at an index beyond an array's end are ignored.
deinterleave(samples) ==
    LET half == Len(samples) \div 2
    IN  [left |-> [j \in 1..half |-> samples[2 * j - 1]],
         right |-> [j \in 1..half |-> samples[2 * j]]]

\* lamejs, part_000:12, 743, 756: Mp3Encoder.encodeBuffer.  The encoder is a
\* function of what it is fed; here it gives out a frame of two bytes for a
\* full block of 1152 samples and withholds a shorter block until flush.
encodeBuffer(left) ==
    IF Len(left) = 1152 THEN <<ToInt8(left[1]), ToInt8(left[1152])>> ELSE <<>>

\* lamejs, part_000:12, 763: Mp3Encoder.flush gives out what was withheld.
flush(ops) ==
    IF \E k \in DOMAIN ops : ops[k].op = "encodeBuffer" /\ ops[k].out = <<>>
    THEN <<-1, 127>>
    ELSE <<>>

RECURSIVE encodeBlocks(_, _, _)
\* The loops of part_000:741-745 and 753-758: one encodeBuffer call per block
\* of sampleBlockSize = 1152 samples of each channel, from index i on; `right`
\* is None in the mono loop.
encodeBlocks(i, left, right) ==
    IF i < Len(left)
    THEN <<[op |-> "encodeBuffer", from |-> i,
            left |-> subarray(left, i, i + 1152),
            right |-> IF right = None THEN None
                      ELSE Some(subarray(right[1], i, i + 1152)),
            out |-> encodeBuffer(subarray(left, i, i + 1152))]>>
           \o encodeBlocks(i + 1152, left, right)
    ELSE <<>>

\* The outputs of the encoder only, first to last.
appendChunkFirst(target, chunk) ==
    IF chunk = Null THEN target ELSE chunk \o target

\* part_000:774-783
appendChunk(target, chunk) ==
    IF chunk = Null THEN target ELSE target \o chunk

RECURSIVE mp3Chunks(_, _)
\* part_000:738, 744, 757, 764: mp3Chunks after the first k operations.
mp3Chunks(ops, k) ==
    IF k = 0 THEN <<>>
    ELSE IF ops[k].op = "new" THEN mp3Chunks(ops, k - 1)
    ELSE appendChunk(mp3Chunks(ops, k - 1), ops[k].out)

\* part_000:766: new Blob([new Uint8Array(mp3Chunks)], {type: "audio/mpeg"})
Blob(chunks) ==
    [type |-> "audio/mpeg", bytes |-> [k \in DOMAIN chunks |-> ToUint8(chunks[k])]]

\* The duration from the length of the samples in memory.
durationOfSamples(arrayBuffer, samples) ==
    <<2 * Len(samples),
      arrayBuffer.sampleRate * arrayBuffer.channels * (arrayBuffer.bitsPerSample \div 8)>>

\* part_000:768-769: the duration in seconds, as the fraction
\* <<numerator, denominator>>.
durationOf(arrayBuffer, samples) ==
    <<arrayBuffer.dataLength,
      arrayBuffer.sampleRate * arrayBuffer.channels * (arrayBuffer.bitsPerSample \div 8)>>

\* Samples of any depth taken for 16-bit samples.
convertWavToMp3AnyDepth(arrayBuffer, bitrate) ==
    LET channels == arrayBuffer.channels
        pcmDataOffset == 44
        samples == Int16Array(arrayBuffer, pcmDataOffset,
                              (arrayBuffer.byteLength - pcmDataOffset) \div 2)
        create == <<[op |-> "new", channels |-> channels,
                     sampleRate |-> arrayBuffer.sampleRate, bitrate |-> bitrate]>>
        encoded ==
            IF channels = 1 THEN create \o encodeBlocks(0, samples, None)
            ELSE create \o encodeBlocks(0, deinterleave(samples).left,
                                        Some(deinterleave(samples).right))
        ops == encoded \o <<[op |-> "flush", out |-> flush(encoded)]>>
    IN  IF arrayBuffer.byteLength < pcmDataOffset
        THEN Thrown("RangeError", <<>>)
        ELSE [ok |-> TRUE, error |-> Null, ops |-> ops,
              blob |-> Some(Blob(mp3Chunks(ops, Len(ops)))),
              duration |-> Some(durationOf(arrayBuffer, samples))]

\* part_000:720-772.  `ops` are the operations on the Mp3Encoder in order,
\* its construction included.  A DataView read beyond the buffer, and an
\* Int16Array that starts beyond it, throw a RangeError.
convertWavToMp3(arrayBuffer, bitrate) ==
    LET channels == arrayBuffer.channels
        sampleRate == arrayBuffer.sampleRate
        bitsPerSample == arrayBuffer.bitsPerSample
        pcmDataOffset == 44
        samples == Int16Array(arrayBuffer, pcmDataOffset,
                              (arrayBuffer.byteLength - pcmDataOffset) \div 2)
        create == <<[op |-> "new", channels |-> channels,
                     sampleRate |-> sampleRate, bitrate |-> bitrate]>>
        encoded ==
            IF channels = 1 THEN create \o encodeBlocks(0, samples, None)
            ELSE create \o encodeBlocks(0, deinterleave(samples).left,
                                        Some(deinterleave(samples).right))
        ops == encoded \o <<[op |-> "flush", out |-> flush(encoded)]>>
    IN  IF arrayBuffer.byteLength < 36
        THEN Thrown("RangeError", <<>>)
        ELSE IF bitsPerSample # 16
        THEN Thrown("Somente amostras PCM 16-bit sao suportadas.", <<>>)
        ELSE IF arrayBuffer.byteLength < pcmDataOffset
        THEN Thrown("RangeError", <<>>)
        ELSE IF channels # 1 /\ channels # 2
        THEN Thrown("Somente audio mono ou estereo e suportado.", create)
        ELSE [ok |-> TRUE, error |-> Null, ops |-> ops,
              blob |-> Some(Blob(mp3Chunks(ops, Len(ops)))),
              duration |-> Some(durationOf(arrayBuffer, samples))]

\* part_000:707-718: an array becomes a buffer of the same bytes; anything
\* else but an ArrayBuffer (null is the one other value here) throws.
toArrayBuffer(data) == data

\* The engine's result treated as silence instead of a failure.
afterSynthesisLenient(synthesisBuffer) ==
    IF synthesisBuffer.isNull \/ synthesisBuffer.byteLength = 0
    THEN [ok |-> TRUE, error |-> Null, ops |-> <<>>,
          blob |-> Some(Blob(<<>>)),
          duration |-> Some(<<0, 1>>)]
    ELSE convertWavToMp3(toArrayBuffer(synthesisBuffer), MP3_BITRATE)

\* part_000:609-616: synthesizeToMp3 from the engine's result on.
afterSynthesis(synthesisBuffer) ==
    IF synthesisBuffer.isNull
    THEN Thrown("Sintese nao retornou dados validos.", <<>>)
    ELSE convertWavToMp3(toArrayBuffer(synthesisBuffer), MP3_BITRATE)

\* The call made for the text and the settings the controls hold when the
\* timer fires.
engineCallLive(r, txt, norm) ==
    LET live == normalizeOptions(selectedVoice(voiceId), speed, pitch,
                                 selectedEmotion(emotion))
        options == [rawdata |-> "array", voice |-> live.voiceId,
                    variant |-> live.variant, speed |-> live.speed,
                    pitch |-> live.pitch, amplitude |-> live.amplitude]
        chunks == splitIntoChunks(text)
    IN  IF Len(chunks) > 1
        THEN [req |-> r, method |-> "speakMultipart", arg |-> chunks,
              options |-> options, chunks |-> chunks]
        ELSE [req |-> r, method |-> "speak", arg |-> <<text>>,
              options |-> options, chunks |-> chunks]

\* part_000:581-599: the call execute makes on the engine for `txt`, with the
\* options built from `norm`.
engineCall(r, txt, norm) ==
    LET options == [rawdata |-> "array", voice |-> norm.voiceId,
                    variant |-> norm.variant, speed |-> norm.speed,
                    pitch |-> norm.pitch, amplitude |-> norm.amplitude]
        chunks == splitIntoChunks(txt)
    IN  IF Len(chunks) > 1
        THEN [req |-> r, method |-> "speakMultipart", arg |-> chunks,
              options |-> options, chunks |-> chunks]
        ELSE [req |-> r, method |-> "speak", arg |-> <<txt>>,
              options |-> options, chunks |-> chunks]

(***************************************************************************)
(* TextToSpeechModule                                                      *)
(***************************************************************************)

\* Bounds of the model: the clicks on the generate button, the changes of a
\* control, and the firings of one request's progress interval.
MaxRequests == 2
MaxEdits == 2
MaxTicks == 1

\* The values the controls are set to.
UiTexts ==
    { <<Run(" ", 1)>>,
      <<Run("a", 1)>>,
      <<Run(".", 1), Run("a", 4001)>>,
      <<Run("a", 1999), Run(".", 1), Run("a", 4001)>>,
      <<Run(".", 1), Run(" ", 4001)>>,
      <<Run("a", 100001)>> }
UiVoiceIds == {"male-neutral"}
UiEmotions == {"epic"}
UiSpeeds == {Quarters(2)}
UiPitches == {Quarters(10)}

\* What one call of the engine may do: return null, an empty array, a mono
\* buffer of 16-bit samples, a buffer of 8-bit samples, a buffer of three
\* channels; or throw.
EngineOutputs ==
    { NullOutput,
      EmptyArray,
      Bytes(48, 1, 22050, 16, 4, <<7, -7>>),
      Bytes(48, 1, 22050, 8, 4, <<7, -7>>),
      Bytes(48, 3, 22050, 16, 4, <<7, -7>>) }

EngineOutcomes ==
    {[threw |-> FALSE, value |-> v] : v \in EngineOutputs}
      \cup {[threw |-> TRUE, value |-> NullOutput]}

\* part_001:64-72: the VideoComposer once it has rendered for the first time.
ComposerConstructed ==
    /\ mode = "advanced"
    /\ mediaLibrary = <<>>
    /\ selectedMediaId = None
    /\ timeline = <<>>
    /\ activeClipIndex = 0
    /\ isPreviewing = FALSE
    /\ previewProgress = 0
    /\ timeoutsRef = {}
    /\ rafRef = Null
    /\ timers = {}
    /\ mediaIds = 0
    /\ clipIds = 0
    /\ operations = 0

\* The state of the module and of its collaborators once the component has
\* rendered for the first time (part_000:152-166, page.tsx:8).
Constructed ==
    /\ ComposerConstructed
    /\ isProcessing = FALSE
    /\ progress = 0
    /\ error = Null
    /\ audioUrl = None
    /\ audioFileName = None
    /\ audioDuration = None
    /\ previousUrlRef = None
    /\ engineReadyRef = Null
    /\ meSpeakRef = Null
    /\ engineInitializedRef = FALSE
    /\ mounted = "rendered"
    /\ initPc = "none"
    /\ reqs = <<>>
    /\ engineCalls = <<>>
    /\ engineLoads = 0
    /\ engineInits = 0
    /\ urlsCreated = 0
    /\ urlsRevoked = {}
    /\ generatedAudio = None
    /\ edits = 0

\* part_000:147-166
Init ==
    /\ text = <<>>
    /\ voiceId = InitialVoiceId
    /\ speed = Quarters(DEFAULT_SPEED)
    /\ pitch = Quarters(DEFAULT_PITCH)
    /\ emotion = InitialEmotion
    /\ Constructed
    /\ normalized = None
    /\ parts = None
    /\ wavBuffer = None
    /\ converted = None

(* The controls *)

\* Any value stored as it is.
setTextUncut(value) == value

\* part_000:234-238: the text handleTextChange stores for `value`.
setText(value) ==
    IF StrLen(value) > MAX_CHARACTERS
    THEN StrSlice(value, 0, MAX_CHARACTERS)
    ELSE value

\* part_000:233-239
HandleTextChange ==
    /\ UNCHANGED composerVars
    /\ mounted = "mounted"
    /\ edits < MaxEdits
    /\ \E value \in UiTexts : text' = setText(value)
    /\ edits' = edits + 1
    /\ UNCHANGED <<voiceId, speed, pitch, emotion>>
    /\ UNCHANGED <<viewVars, refVars, flowVars, pureVars>>
    /\ UNCHANGED <<engineCalls, engineLoads, engineInits, urlsCreated, urlsRevoked, generatedAudio>>

\* part_000:369: onClick={() => setVoiceId(option.id)}
SetVoiceId ==
    /\ UNCHANGED composerVars
    /\ mounted = "mounted"
    /\ edits < MaxEdits
    /\ \E value \in UiVoiceIds : voiceId' = value
    /\ edits' = edits + 1
    /\ UNCHANGED <<text, speed, pitch, emotion>>
    /\ UNCHANGED <<viewVars, refVars, flowVars, pureVars>>
    /\ UNCHANGED <<engineCalls, engineLoads, engineInits, urlsCreated, urlsRevoked, generatedAudio>>

\* part_000:406: onChange={(event) => setSpeed(Number(event.target.value))}
SetSpeed ==
    /\ UNCHANGED composerVars
    /\ mounted = "mounted"
    /\ edits < MaxEdits
    /\ \E value \in UiSpeeds : speed' = value
    /\ edits' = edits + 1
    /\ UNCHANGED <<text, voiceId, pitch, emotion>>
    /\ UNCHANGED <<viewVars, refVars, flowVars, pureVars>>
    /\ UNCHANGED <<engineCalls, engineLoads, engineInits, urlsCreated, urlsRevoked, generatedAudio>>

\* part_000:420: onChange={(event) => setPitch(Number(event.target.value))}
SetPitch ==
    /\ UNCHANGED composerVars
    /\ mounted = "mounted"
    /\ edits < MaxEdits
    /\ \E value \in UiPitches : pitch' = value
    /\ edits' = edits + 1
    /\ UNCHANGED <<text, voiceId, speed, emotion>>
    /\ UNCHANGED <<viewVars, refVars, flowVars, pureVars>>
    /\ UNCHANGED <<engineCalls, engineLoads, engineInits, urlsCreated, urlsRevoked, generatedAudio>>

\* part_000:428: onChange={(event) => setEmotion(event.target.value as EmotionId)}
SetEmotion ==
    /\ UNCHANGED composerVars
    /\ mounted = "mounted"
    /\ edits < MaxEdits
    /\ \E value \in UiEmotions : emotion' = value
    /\ edits' = edits + 1
    /\ UNCHANGED <<text, voiceId, speed, pitch>>
    /\ UNCHANGED <<viewVars, refVars, flowVars, pureVars>>
    /\ UNCHANGED <<engineCalls, engineLoads, engineInits, urlsCreated, urlsRevoked, generatedAudio>>

(* The engine *)

\* part_000:195-199: loadConfig and the six loadVoice calls, once.
loadEngine ==
    /\ engineLoads' = IF engineInitializedRef THEN engineLoads ELSE engineLoads + 1
    /\ engineInitializedRef' = TRUE

\* Every call starts the async body anew.
initializeEngineAnew ==
    /\ engineReadyRef' = "pending"
    /\ engineInits' = engineInits + 1
    /\ UNCHANGED meSpeakRef
    /\ IF meSpeakRef = Null
       THEN initPc' = "import" /\ UNCHANGED <<engineInitializedRef, engineLoads>>
       ELSE initPc' = "wait" /\ loadEngine

\* part_000:178-204: one call of initializeEngine.  With a promise in
\* engineReadyRef it returns that promise.  Otherwise the async body starts
\* and runs to its first await: the import of "mespeak" when meSpeakRef holds
\* nothing, else wait(10).  (typeof window is "object" wherever an effect or
\* a click runs.)
initializeEngine ==
    IF engineReadyRef # Null
    THEN UNCHANGED <<engineReadyRef, meSpeakRef, engineInitializedRef, initPc,
                     engineLoads, engineInits>>
    ELSE /\ engineReadyRef' = "pending"
         /\ engineInits' = engineInits + 1
         /\ UNCHANGED meSpeakRef
         /\ IF meSpeakRef = Null
            THEN initPc' = "import" /\ UNCHANGED <<engineInitializedRef, engineLoads>>
            ELSE initPc' = "wait" /\ loadEngine

\* part_000:206-218: the effects of the first render; the cleanup of the
\* second one is Unmount.
MountEffects ==
    /\ UNCHANGED composerVars
    /\ mounted = "rendered"
    /\ mounted' = "mounted"
    /\ initializeEngine
    /\ UNCHANGED <<controlVars, viewVars, pureVars, previousUrlRef, reqs>>
    /\ UNCHANGED <<engineCalls, urlsCreated, urlsRevoked, generatedAudio, edits>>

\* A call of handleGenerateAudio as it starts: what its closure holds of the
\* controls (part_000:267-274) and its locals.
NewRequest ==
    [pc |-> "start", text |-> text, voice |-> voiceId, speed |-> speed,
     pitch |-> pitch, emotion |-> emotion, normalized |-> None,
     output |-> None, result |-> None, url |-> None, fileName |-> None,
     interval |-> FALSE, syntheticProgress |-> 0, ticks |-> 0,
     ready |-> 0, outcome |-> "none"]

GenericError == "Nao foi possivel concluir a sintese de voz."

\* part_000:252-274: handleGenerateAudio from the end of its await of
\* initializeEngine to the await inside synthesizeToMp3 (part_000:578-607),
\* whose timer of 16 ms is then pending; with no engine in meSpeakRef the
\* catch and finally blocks (part_000:300-306) end the call.
entered(req) ==
    IF meSpeakRef' = Null
    THEN [req EXCEPT !.pc = "done", !.outcome = "failed"]
    ELSE [req EXCEPT !.pc = "awaitExecute", !.interval = TRUE,
                     !.syntheticProgress = 3,
                     !.normalized = Some(normalizeOptions(
                         selectedVoice(req.voice), req.speed, req.pitch,
                         selectedEmotion(req.emotion)))]

\* What the module shows once a call has done what `entered` describes.
enteredView ==
    /\ error' = IF meSpeakRef' = Null THEN GenericError ELSE Null
    /\ isProcessing' = (meSpeakRef' # Null)
    /\ progress' = 3
    /\ UNCHANGED <<audioUrl, audioFileName, audioDuration>>

\* The calls of handleGenerateAudio that await the promise of engineReadyRef.
Parked == {i \in DOMAIN reqs : reqs[i].pc = "awaitEngine"}

\* part_000:188-200: the import has resolved: the engine is stored and
\* loaded, and wait(10) begins.
ImportResolved ==
    /\ UNCHANGED composerVars
    /\ initPc = "import"
    /\ meSpeakRef' = "meSpeak"
    /\ loadEngine
    /\ initPc' = "wait"
    /\ UNCHANGED <<controlVars, viewVars, pureVars, previousUrlRef, engineReadyRef>>
    /\ UNCHANGED <<mounted, reqs>>
    /\ UNCHANGED <<engineCalls, engineInits, urlsCreated, urlsRevoked, generatedAudio, edits>>

\* part_000:188-194, 207-209: the import has failed, or its module has no
\* engine: the promise of engineReadyRef is rejected.  The catch of the mount
\* effect sets the error; every call of handleGenerateAudio that awaits the
\* promise is rejected at its line 251, outside its try block.
InitFailed ==
    /\ UNCHANGED composerVars
    /\ initPc = "import"
    /\ engineReadyRef' = "rejected"
    /\ initPc' = "failed"
    /\ error' = "Falha ao inicializar o mecanismo de voz."
    /\ reqs' = [i \in DOMAIN reqs |->
                  IF i \in Parked
                  THEN [reqs[i] EXCEPT !.pc = "done", !.outcome = "rejected"]
                  ELSE reqs[i]]
    /\ UNCHANGED <<isProcessing, progress, audioUrl, audioFileName, audioDuration>>
    /\ UNCHANGED <<controlVars, pureVars, previousUrlRef, meSpeakRef, engineInitializedRef>>
    /\ UNCHANGED mounted
    /\ UNCHANGED worldVars

\* part_000:200-201: wait(10) is over: the promise of engineReadyRef is
\* resolved, and every call of handleGenerateAudio that awaits it goes on, in
\* the order of the clicks, before any other event is handled.
InitDone ==
    /\ UNCHANGED composerVars
    /\ initPc = "wait"
    /\ engineReadyRef' = "resolved"
    /\ initPc' = "done"
    /\ UNCHANGED <<meSpeakRef, engineInitializedRef, previousUrlRef>>
    /\ reqs' = [i \in DOMAIN reqs |->
                  IF i \in Parked THEN entered(reqs[i]) ELSE reqs[i]]
    /\ IF Parked # {} THEN enteredView ELSE UNCHANGED viewVars
    /\ UNCHANGED <<controlVars, pureVars, mounted, worldVars>>

(* One request *)

\* Nothing refused.
refusalNone(txt) == None

\* part_000:242-249: the message handleGenerateAudio refuses a text with, if
\* it refuses it.
refusal(txt) ==
    IF StrLen(StrTrim(txt)) = 0
    THEN Some("Insira um texto para realizar a conversao.")
    ELSE IF StrLen(txt) > MAX_CHARACTERS
    THEN Some("O texto excede o limite de 100.000 caracteres.")
    ELSE None

\* part_000:241-251 and, with the engine ready, on to part_000:274: a click
\* on the generate button, which is disabled while isProcessing
\* (part_000:451-452).  `ready` is the promise initializeEngine returned, by
\* the number of the call of the async body that made it.
HandleGenerateAudio ==
    /\ UNCHANGED composerVars
    /\ mounted = "mounted"
    /\ ~isProcessing
    /\ Len(reqs) < MaxRequests
    /\ UNCHANGED <<controlVars, pureVars, mounted, previousUrlRef>>
    /\ UNCHANGED <<engineCalls, urlsCreated, urlsRevoked, generatedAudio, edits>>
    /\ IF refusal(text) # None
       THEN /\ error' = refusal(text)[1]
            /\ reqs' = Append(reqs, [NewRequest EXCEPT !.pc = "done",
                                                       !.outcome = "refused"])
            /\ UNCHANGED <<isProcessing, progress, audioUrl, audioFileName, audioDuration>>
            /\ UNCHANGED <<engineReadyRef, meSpeakRef, engineInitializedRef, initPc>>
            /\ UNCHANGED <<engineLoads, engineInits>>
       ELSE /\ initializeEngine
            /\ LET request == [NewRequest EXCEPT !.ready = engineInits']
               IN  IF engineReadyRef' = "resolved"
                   THEN /\ reqs' = Append(reqs, entered(request))
                        /\ enteredView
                   ELSE IF engineReadyRef' = "rejected"
                   THEN /\ reqs' = Append(reqs, [request EXCEPT !.pc = "done",
                                                                !.outcome = "rejected"])
                        /\ UNCHANGED viewVars
                   ELSE /\ reqs' = Append(reqs, [request EXCEPT !.pc = "awaitEngine"])
                        /\ UNCHANGED viewVars

\* part_000:257-260: the progress interval of request i fires.  Math.random()
\* * 6 is a number in [0, 6); the model takes its whole part.
ProgressTick(i) ==
    /\ UNCHANGED composerVars
    /\ reqs[i].interval
    /\ reqs[i].ticks < MaxTicks
    /\ \E d \in {0, 5} :
        LET p == Min2(95, reqs[i].syntheticProgress + d)
        IN  /\ reqs' = [reqs EXCEPT ![i].syntheticProgress = p,
                                    ![i].ticks = reqs[i].ticks + 1]
            /\ progress' = p
    /\ UNCHANGED <<isProcessing, error, audioUrl, audioFileName, audioDuration>>
    /\ UNCHANGED <<controlVars, pureVars, refVars, mounted, initPc, worldVars>>

\* part_000:579-617, 276-291, 300-306: the timer of 16 ms of request i fires:
\* execute calls the engine, and what follows the engine's answer runs on to
\* the next timer: to wait(500) if everything succeeds, to the end of the
\* catch and finally blocks if anything throws.
Execute(i) ==
    /\ UNCHANGED composerVars
    /\ reqs[i].pc = "awaitExecute"
    /\ \E out \in EngineOutcomes :
        LET call == engineCall(i, reqs[i].text, reqs[i].normalized[1])
            result == IF out.threw THEN Thrown("engine", <<>>)
                      ELSE afterSynthesis(out.value)
            url == urlsCreated + 1
            fileName == [prefix |-> "voz-premium-", stamp |-> i]
        IN  /\ engineCalls' = Append(engineCalls, call)
            /\ IF result.ok
               THEN /\ urlsCreated' = url
                    /\ urlsRevoked' = IF previousUrlRef # None
                                      THEN urlsRevoked \cup {previousUrlRef[1]}
                                      ELSE urlsRevoked
                    /\ previousUrlRef' = Some(url)
                    /\ audioUrl' = Some(url)
                    /\ audioFileName' = Some(fileName)
                    /\ audioDuration' = result.duration
                    /\ progress' = 100
                    /\ reqs' = [reqs EXCEPT ![i].pc = "awaitWait",
                                            ![i].output = Some(out),
                                            ![i].result = Some(result),
                                            ![i].url = Some(url),
                                            ![i].fileName = Some(fileName)]
                    /\ UNCHANGED <<isProcessing, error>>
               ELSE /\ error' = GenericError
                    /\ isProcessing' = FALSE
                    /\ reqs' = [reqs EXCEPT ![i].pc = "done",
                                            ![i].output = Some(out),
                                            ![i].result = Some(result),
                                            ![i].interval = FALSE,
                                            ![i].syntheticProgress = 0,
                                            ![i].ticks = 0,
                                            ![i].outcome = "failed"]
                    /\ UNCHANGED <<progress, audioUrl, audioFileName, audioDuration>>
                    /\ UNCHANGED <<previousUrlRef, urlsCreated, urlsRevoked>>
    /\ UNCHANGED <<controlVars, pureVars, mounted, initPc>>
    /\ UNCHANGED <<engineReadyRef, meSpeakRef, engineInitializedRef>>
    /\ UNCHANGED <<engineLoads, engineInits, generatedAudio, edits>>

\* The end of a successful request that leaves its interval running.
FinishNotCleared(i) ==
    /\ UNCHANGED composerVars
    /\ reqs[i].pc = "awaitWait"
    /\ isProcessing' = FALSE
    /\ generatedAudio' = Some([url |-> reqs[i].url[1],
                               fileName |-> reqs[i].fileName[1],
                               blob |-> reqs[i].result[1].blob[1],
                               duration |-> reqs[i].result[1].duration[1]])
    /\ reqs' = [reqs EXCEPT ![i].pc = "done", ![i].outcome = "ok"]
    /\ UNCHANGED <<progress, error, audioUrl, audioFileName, audioDuration>>
    /\ UNCHANGED <<controlVars, pureVars, refVars, mounted, initPc>>
    /\ UNCHANGED <<engineCalls, engineLoads, engineInits, urlsCreated, urlsRevoked, edits>>

\* part_000:291-299, 304-306 and page.tsx:71-73: wait(500) of request i is
\* over: the button is enabled again, the page is handed the audio and the
\* interval is cleared.
Finish(i) ==
    /\ UNCHANGED composerVars
    /\ reqs[i].pc = "awaitWait"
    /\ isProcessing' = FALSE
    /\ generatedAudio' = Some([url |-> reqs[i].url[1],
                               fileName |-> reqs[i].fileName[1],
                               blob |-> reqs[i].result[1].blob[1],
                               duration |-> reqs[i].result[1].duration[1]])
    /\ reqs' = [reqs EXCEPT ![i].pc = "done", ![i].interval = FALSE,
                            ![i].syntheticProgress = 0, ![i].ticks = 0,
                            ![i].outcome = "ok"]
    /\ UNCHANGED <<progress, error, audioUrl, audioFileName, audioDuration>>
    /\ UNCHANGED <<controlVars, pureVars, refVars, mounted, initPc>>
    /\ UNCHANGED <<engineCalls, engineLoads, engineInits, urlsCreated, urlsRevoked, edits>>

\* part_000:212-218: the module is unmounted: the cleanup of its effect
\* revokes the url of previousUrlRef.
Unmount ==
    /\ UNCHANGED composerVars
    /\ mounted = "mounted"
    /\ mounted' = "unmounted"
    /\ urlsRevoked' = IF previousUrlRef # None
                      THEN urlsRevoked \cup {previousUrlRef[1]}
                      ELSE urlsRevoked
    /\ UNCHANGED <<controlVars, viewVars, pureVars, refVars, initPc, reqs>>
    /\ UNCHANGED <<engineCalls, engineLoads, engineInits, urlsCreated, generatedAudio, edits>>

Next ==
    \/ MountEffects
    \/ HandleTextChange
    \/ SetVoiceId
    \/ SetSpeed
    \/ SetPitch
    \/ SetEmotion
    \/ ImportResolved
    \/ InitFailed
    \/ InitDone
    \/ HandleGenerateAudio
    \/ \E i \in DOMAIN reqs : ProgressTick(i)
    \/ \E i \in DOMAIN reqs : Execute(i)
    \/ \E i \in DOMAIN reqs : Finish(i)
    \/ Unmount

Spec == Init /\ [][Next]_vars

\* The requests under fair timers: the 16 ms of synthesizeToMp3 (part_000:606)
\* and the wait(500) of handleGenerateAudio (part_000:291), whether the
\* module is still mounted or not.
\* The steps of the requests, with the text as the one control that changes.
RequestNext ==
    \/ MountEffects
    \/ HandleTextChange
    \/ ImportResolved
    \/ InitFailed
    \/ InitDone
    \/ HandleGenerateAudio
    \/ \E i \in DOMAIN reqs : ProgressTick(i)
    \/ \E i \in DOMAIN reqs : Execute(i)
    \/ \E i \in DOMAIN reqs : Finish(i)
    \/ Unmount

\* The timer of 16 ms of some request is pending: Execute is enabled for it
\* (every answer of the engine is a step that adds to engineCalls).
ExecutePending == \E i \in DOMAIN reqs : reqs[i].pc = "awaitExecute"

\* Weak fairness of the two timers; that of Execute is written out, with
\* ExecutePending for its enabling condition.
FairSpec ==
    /\ Init
    /\ [][RequestNext]_vars
    /\ \/ []<>(~ExecutePending)
       \/ []<><<\E i \in DOMAIN reqs : Execute(i)>>_vars
    /\ WF_vars(\E i \in DOMAIN reqs : Finish(i))

(***************************************************************************)
(* VideoComposer (part_001)                                                *)
(***************************************************************************)

\* At most MaxMedia files are ever dropped, at most MaxClips clips are ever
\* created and the composer is operated at most MaxOperations times.
MaxMedia == 2
MaxClips == 3
MaxOperations == 7

\* One more operation of the composer.
Operated ==
    /\ operations < MaxOperations
    /\ operations' = operations + 1

\* part_001:36: the transitions the select of a clip offers besides "fade".
UiTransitions == {"cut"}

\* part_001:711-718: the two ends of the duration slider.
UiDurations == {1, 120}

\* page.tsx:70-76 and part_000:294-299: the narrations the page can hand to
\* the composer: 16-bit mono speech at 22050 Hz of 12.5 s and of 300 s.
Narration(stamp, dataLength) ==
    [url |-> stamp,
     fileName |-> [prefix |-> "voz-premium-", stamp |-> stamp],
     blob |-> Blob(<<>>),
     duration |-> <<dataLength, 22050 * 1 * (16 \div 8)>>]

Narrations == {Narration(1, 551250), Narration(2, 13230000)}

\* Math.round of the non-negative fraction d = <<numerator, denominator>>.
MathRoundFraction(d) == (2 * d[1] + d[2]) \div (2 * d[2])

\* part_001:144, 201: Math.round(audio?.duration ?? fallback)
roundedAudioDuration(audio, fallback) ==
    IF audio = None THEN fallback ELSE MathRoundFraction(audio[1].duration)

\* part_001:80-87: the clips whose media item is found in the library.
timelineWithMedia(clips, library) ==
    SelectSeq(clips, LAMBDA clip : \E k \in DOMAIN library : library[k] = clip.mediaId)

\* The ids of the clips of a timeline.
clipIdsOf(clips) == {clips[k].id : k \in DOMAIN clips}

\* Array.prototype.filter on a sequence of clips: those with another id.
withoutClip(clips, clipId) == SelectSeq(clips, LAMBDA clip : clip.id # clipId)

\* A timeline that keeps the clips of a removed media item.
withoutMediaKept(clips, mediaId) == clips

\* part_001:221: the clips that do not show the media item.
withoutMedia(clips, mediaId) == SelectSeq(clips, LAMBDA clip : clip.mediaId # mediaId)

\* The index of the clip with the id (Array.prototype.findIndex, one-based).
findIndex(clips, clipId) == CHOOSE k \in DOMAIN clips : clips[k].id = clipId

\* @dnd-kit/sortable arrayMove: the element at from is taken out and put
\* back at to.
arrayMove(array, from, to) ==
    LET rest == [k \in 1..(Len(array) - 1) |->
                    IF k < from THEN array[k] ELSE array[k + 1]]
    IN [k \in 1..Len(array) |->
            IF k < to THEN rest[k]
            ELSE IF k = to THEN array[from]
            ELSE rest[k - 1]]

\* part_001:273-284: the timer scheduleClip(index) sets, in a run of the
\* effect that saw length clips.
clipTimer(index, length) == [kind |-> "clip", index |-> index, length |-> length]

\* part_001:279-281: the timer of 300 ms that sets the progress back to 0.
resetTimer == [kind |-> "reset", index |-> 0, length |-> 0]

\* A run of the preview effect that keeps the timers of the run before.
PreviewEffectKeepingTimers(index, pending) ==
    LET shown == timelineWithMedia(timeline', mediaLibrary')
    IN IF isPreviewing' /\ shown # <<>>
       THEN /\ activeClipIndex' = 0
            /\ timers' = pending \cup {clipTimer(0, Len(shown))}
            /\ timeoutsRef' = {clipTimer(0, Len(shown))}
            /\ rafRef' = "frame"
       ELSE /\ activeClipIndex' = index
            /\ timers' = pending
            /\ timeoutsRef' = {}
            /\ rafRef' = Null

\* part_001:252-307: the preview effect, run after a render in which
\* isPreviewing, timelineWithMedia or totalTimelineDuration changed: the
\* cleanup of the run before (299-306) and the new run (253-297).  index is
\* the active clip index the handler leaves and pending the timers it leaves.
PreviewEffect(index, pending) ==
    LET shown == timelineWithMedia(timeline', mediaLibrary')
    IN IF isPreviewing' /\ shown # <<>>
       THEN /\ activeClipIndex' = 0
            /\ timers' = (pending \ timeoutsRef) \cup {clipTimer(0, Len(shown))}
            /\ timeoutsRef' = {clipTimer(0, Len(shown))}
            /\ rafRef' = "frame"
       ELSE /\ activeClipIndex' = index
            /\ timers' = pending \ timeoutsRef
            /\ timeoutsRef' = {}
            /\ rafRef' = Null

\* What the composer actions leave alone: the text-to-speech module.
speechVars ==
    <<controlVars, viewVars, refVars, flowVars, pureVars, engineCalls, engineLoads,
      engineInits, urlsCreated, urlsRevoked, edits>>

\* page.tsx:70-76: the text-to-speech module hands a narration to the page,
\* which passes it to the composer as its audio prop.
AudioReady ==
    /\ Operated
    /\ \E audio \in Narrations : generatedAudio' = Some(audio)
    /\ UNCHANGED <<mode, mediaLibrary, selectedMediaId, timeline, activeClipIndex,
                   isPreviewing, previewProgress, timeoutsRef, rafRef, timers, mediaIds,
                   clipIds>>
    /\ UNCHANGED speechVars

\* part_001:95-121: n files of at most 200 MB are dropped.
onDrop ==
    /\ Operated
    /\ UNCHANGED <<mode, timeline, isPreviewing, previewProgress, clipIds>>
    /\ UNCHANGED <<speechVars, generatedAudio>>
    /\ mediaIds < MaxMedia
    /\ \E n \in 1..(MaxMedia - mediaIds) :
        /\ mediaLibrary' = mediaLibrary \o [k \in 1..n |-> mediaIds + k]
        /\ selectedMediaId' = Some(mediaIds + 1)
        /\ mediaIds' = mediaIds + n
    /\ PreviewEffect(activeClipIndex, timers)

\* part_001:379: a media item of the library is clicked.
SetSelectedMediaId ==
    /\ Operated
    /\ UNCHANGED <<mode, mediaLibrary, timeline, activeClipIndex, isPreviewing,
                   previewProgress, timeoutsRef, rafRef, timers, mediaIds, clipIds>>
    /\ UNCHANGED <<speechVars, generatedAudio>>
    /\ \E k \in DOMAIN mediaLibrary : selectedMediaId' = Some(mediaLibrary[k])

\* part_001:459, 468: one of the two mode buttons is clicked.
SetMode ==
    /\ Operated
    /\ UNCHANGED <<mediaLibrary, selectedMediaId, timeline, activeClipIndex, isPreviewing,
                   previewProgress, timeoutsRef, rafRef, timers, mediaIds, clipIds>>
    /\ UNCHANGED <<speechVars, generatedAudio>>
    /\ \E m \in {"simple", "advanced"} : mode' = m

\* part_001:138-148, 429: "add to timeline" of a media item of the library.
handleAddClip ==
    /\ Operated
    /\ UNCHANGED <<mode, mediaLibrary, selectedMediaId, isPreviewing, previewProgress,
                   mediaIds>>
    /\ UNCHANGED <<speechVars, generatedAudio>>
    /\ clipIds < MaxClips
    /\ \E k \in DOMAIN mediaLibrary :
        timeline' = Append(timeline,
                           [id |-> clipIds + 1,
                            mediaId |-> mediaLibrary[k],
                            duration |-> Max2(5, roundedAudioDuration(generatedAudio, 8)),
                            transition |-> "fade"])
    /\ clipIds' = clipIds + 1
    /\ PreviewEffect(activeClipIndex, timers)

\* part_001:150-164, 746: "remove" of a clip of the timeline.
handleRemoveClip ==
    /\ Operated
    /\ UNCHANGED <<mode, mediaLibrary, selectedMediaId, mediaIds, clipIds>>
    /\ UNCHANGED <<speechVars, generatedAudio>>
    /\ \E clipId \in clipIdsOf(timeline) :
        LET updated == withoutClip(timeline, clipId)
        IN /\ timeline' = updated
           /\ IF Len(updated) = Len(timeline)
              THEN /\ UNCHANGED <<isPreviewing, previewProgress>>
                   /\ PreviewEffect(activeClipIndex, timers)
              ELSE IF Len(updated) = 0
              THEN /\ isPreviewing' = FALSE
                   /\ previewProgress' = 0
                   /\ PreviewEffect(0, timers)
              ELSE /\ UNCHANGED <<isPreviewing, previewProgress>>
                   /\ PreviewEffect(Min2(activeClipIndex, Len(updated) - 1), timers)

\* part_001:166-172, 711-718: the duration slider of a clip is moved.
handleDurationChange ==
    /\ Operated
    /\ UNCHANGED <<mode, mediaLibrary, selectedMediaId, isPreviewing, previewProgress,
                   mediaIds, clipIds>>
    /\ UNCHANGED <<speechVars, generatedAudio>>
    /\ \E clipId \in clipIdsOf(timeline), duration \in UiDurations :
        timeline' = [k \in DOMAIN timeline |->
                        IF timeline[k].id = clipId
                        THEN [timeline[k] EXCEPT !.duration = clamp(1, 120, duration)]
                        ELSE timeline[k]]
    /\ PreviewEffect(activeClipIndex, timers)

\* part_001:174-180: a transition is chosen for a clip.
handleTransitionChange ==
    /\ Operated
    /\ UNCHANGED <<mode, mediaLibrary, selectedMediaId, isPreviewing, previewProgress,
                   mediaIds, clipIds>>
    /\ UNCHANGED <<speechVars, generatedAudio>>
    /\ \E clipId \in clipIdsOf(timeline), transition \in UiTransitions :
        timeline' = [k \in DOMAIN timeline |->
                        IF timeline[k].id = clipId
                        THEN [timeline[k] EXCEPT !.transition = transition]
                        ELSE timeline[k]]
    /\ PreviewEffect(activeClipIndex, timers)

\* part_001:182-192: a clip is dropped on another clip.
handleDragEnd ==
    /\ Operated
    /\ UNCHANGED <<mode, mediaLibrary, selectedMediaId, isPreviewing, previewProgress,
                   mediaIds, clipIds>>
    /\ UNCHANGED <<speechVars, generatedAudio>>
    /\ \E active \in clipIdsOf(timeline), over \in clipIdsOf(timeline) :
        /\ active # over
        /\ timeline' = arrayMove(timeline, findIndex(timeline, active),
                                 findIndex(timeline, over))
    /\ PreviewEffect(activeClipIndex, timers)

\* part_001:194-210, 489: "apply" of the simple mode.
handleModeApply ==
    /\ Operated
    /\ UNCHANGED <<mode, mediaLibrary, selectedMediaId, isPreviewing, previewProgress,
                   mediaIds>>
    /\ UNCHANGED <<speechVars, generatedAudio>>
    /\ clipIds < MaxClips
    /\ mode = "simple"
    /\ selectedMediaId # None
    /\ timeline' = <<[id |-> clipIds + 1,
                      mediaId |-> selectedMediaId[1],
                      duration |-> Max2(10, roundedAudioDuration(generatedAudio, 60)),
                      transition |-> "fade"]>>
    /\ clipIds' = clipIds + 1
    /\ PreviewEffect(activeClipIndex, timers)

\* part_001:212-236, 418: "remove" of a media item of the library.
handleRemoveMedia ==
    /\ Operated
    /\ UNCHANGED <<mode, mediaIds, clipIds>>
    /\ UNCHANGED <<speechVars, generatedAudio>>
    /\ \E k \in DOMAIN mediaLibrary :
        LET mediaId == mediaLibrary[k]
            updated == withoutMedia(timeline, mediaId)
        IN /\ mediaLibrary' = SelectSeq(mediaLibrary, LAMBDA id : id # mediaId)
           /\ timeline' = updated
           /\ selectedMediaId' = IF selectedMediaId = Some(mediaId) THEN None
                                 ELSE selectedMediaId
           /\ IF Len(updated) = Len(timeline)
              THEN /\ UNCHANGED <<isPreviewing, previewProgress>>
                   /\ PreviewEffect(activeClipIndex, timers)
              ELSE IF Len(updated) = 0
              THEN /\ isPreviewing' = FALSE
                   /\ previewProgress' = 0
                   /\ PreviewEffect(0, timers)
              ELSE /\ UNCHANGED <<isPreviewing, previewProgress>>
                   /\ PreviewEffect(Min2(activeClipIndex, Len(updated) - 1), timers)

\* part_001:238-250, 555-559: the preview button, enabled while the timeline
\* shows a clip.
togglePreview ==
    /\ Operated
    /\ UNCHANGED <<mode, mediaLibrary, selectedMediaId, timeline, mediaIds, clipIds>>
    /\ UNCHANGED <<speechVars, generatedAudio>>
    /\ timelineWithMedia(timeline, mediaLibrary) # <<>>
    /\ isPreviewing' = ~isPreviewing
    /\ previewProgress' = 0
    /\ PreviewEffect(activeClipIndex, timers)

\* part_001:273-283: the timer of a clip fires: the next clip is scheduled
\* or, after the last one, the preview ends and the effect is cleaned up.
ClipTimerFires(t) ==
    /\ UNCHANGED operations
    /\ UNCHANGED <<mode, mediaLibrary, selectedMediaId, timeline, mediaIds, clipIds>>
    /\ UNCHANGED <<speechVars, generatedAudio>>
    /\ t \in timers
    /\ t.kind = "clip"
    /\ IF t.index + 1 < t.length
       THEN /\ activeClipIndex' = t.index + 1
            /\ timers' = (timers \ {t}) \cup {clipTimer(t.index + 1, t.length)}
            /\ timeoutsRef' = timeoutsRef \cup {clipTimer(t.index + 1, t.length)}
            /\ UNCHANGED <<isPreviewing, previewProgress, rafRef>>
       ELSE /\ isPreviewing' = FALSE
            /\ previewProgress' = 100
            /\ IF isPreviewing
               THEN PreviewEffect(activeClipIndex, (timers \ {t}) \cup {resetTimer})
               ELSE /\ timers' = (timers \ {t}) \cup {resetTimer}
                    /\ UNCHANGED <<activeClipIndex, timeoutsRef, rafRef>>

\* part_001:279-281: the timer of 300 ms fires.
ResetTimerFires ==
    /\ UNCHANGED operations
    /\ UNCHANGED <<mode, mediaLibrary, selectedMediaId, timeline, activeClipIndex,
                   isPreviewing, timeoutsRef, rafRef, mediaIds, clipIds>>
    /\ UNCHANGED <<speechVars, generatedAudio>>
    /\ resetTimer \in timers
    /\ previewProgress' = 0
    /\ timers' = timers \ {resetTimer}

\* part_001:289-297: an animation frame: the progress is the share of the
\* total duration that has passed (half of it, or all of it), and the next
\* frame is requested.
animate ==
    /\ UNCHANGED operations
    /\ UNCHANGED <<mode, mediaLibrary, selectedMediaId, timeline, activeClipIndex,
                   isPreviewing, timeoutsRef, rafRef, timers, mediaIds, clipIds>>
    /\ UNCHANGED <<speechVars, generatedAudio>>
    /\ rafRef # Null
    /\ \E p \in {50, 100} : previewProgress' = clamp(0, 100, p)

\* What the user does to the composer.
ComposerUserNext ==
    \/ onDrop
    \/ SetSelectedMediaId
    \/ SetMode
    \/ handleAddClip
    \/ handleRemoveClip
    \/ handleDurationChange
    \/ handleTransitionChange
    \/ handleDragEnd
    \/ handleModeApply
    \/ handleRemoveMedia
    \/ togglePreview

\* What the window does to the composer.
ComposerTimerNext ==
    \/ \E t \in timers : ClipTimerFires(t)
    \/ ResetTimerFires
    \/ animate

ComposerNext ==
    \/ AudioReady
    \/ ComposerUserNext
    \/ ComposerTimerNext

ComposerSpec == Init /\ [][ComposerNext]_vars

\* A timer of a clip is set and has neither fired nor been cleared.
ClipTimerPending == \E t \in timers : t.kind = "clip"

\* The composer in a window whose timers fire: a timer of a clip that stays
\* pending fires (window.setTimeout, part_001:273-283).
ComposerFairSpec ==
    /\ Init
    /\ [][ComposerNext]_vars
    /\ \/ []<>(~ClipTimerPending)
       \/ []<><<\E t \in timers : ClipTimerFires(t)>>_vars

(***************************************************************************)
(* Inputs of the pure functions                                            *)
(***************************************************************************)

\* User speeds -MaxSpeedQ/4 .. MaxSpeedQ/4 and user pitches -MaxPitchQ/4 ..
\* MaxPitchQ/4 in steps of a quarter: the ranges of the sliders (0.5..2 and
\* -10..10, part_000:402-418) and values on both sides of them.
MaxSpeedQ == 10
MaxPitchQ == 120

SpeedInputs == (-MaxSpeedQ)..MaxSpeedQ
PitchInputs == (-MaxPitchQ)..MaxPitchQ

\* Texts of at most MaxRuns runs.
MaxRuns == 5
Alphabet == {"a", " ", "."}
RunLengths == {1, 1999, 4001}
RunTypes == {Run(c, n) : c \in Alphabet, n \in RunLengths}

Texts ==
    { s \in UNION {[1..k -> RunTypes] : k \in 0..MaxRuns} :
        \A i \in 1..(Len(s) - 1) : s[i].c # s[i + 1].c }


(***************************************************************************)
(* ResolveSpec: normalizeOptions applied to any selection of voice,        *)
(* emotion, speed and pitch                                                *)
(***************************************************************************)

ResolveInit ==
    /\ voiceId \in VoiceIds
    /\ emotion \in EmotionIds
    /\ speed \in SpeedInputs
    /\ pitch \in PitchInputs
    /\ text = <<>>
    /\ Constructed
    /\ normalized = None
    /\ parts = None
    /\ wavBuffer = None
    /\ converted = None

\* The resolved speed written back over the speed it was resolved from.
ResolveInPlace ==
    /\ UNCHANGED composerVars
    /\ normalized = None
    /\ normalized' = Some(normalizeOptions(selectedVoice(voiceId), speed, pitch,
                                           selectedEmotion(emotion)))
    /\ speed' = normalized'[1].speed
    /\ UNCHANGED <<text, voiceId, pitch, emotion>>
    /\ UNCHANGED <<viewVars, refVars, flowVars, worldVars>>
    /\ UNCHANGED <<parts, wavBuffer, converted>>

Resolve ==
    /\ UNCHANGED composerVars
    /\ normalized = None
    /\ normalized' = Some(normalizeOptions(selectedVoice(voiceId), speed, pitch,
                                           selectedEmotion(emotion)))
    /\ UNCHANGED <<controlVars, viewVars, refVars, flowVars, worldVars>>
    /\ UNCHANGED <<parts, wavBuffer, converted>>

\* The same call once more: normalizeOptions reads its arguments and the
\* presets and writes nothing but its result (part_000:630-661).
ResolveAgain ==
    /\ UNCHANGED composerVars
    /\ normalized # None
    /\ normalized' = Some(normalizeOptions(selectedVoice(voiceId), speed, pitch,
                                           selectedEmotion(emotion)))
    /\ UNCHANGED <<controlVars, viewVars, refVars, flowVars, worldVars>>
    /\ UNCHANGED <<parts, wavBuffer, converted>>

ResolveNext == Resolve \/ ResolveAgain

ResolveSpec == ResolveInit /\ [][ResolveNext]_vars

(***************************************************************************)
(* ChunkSpec: splitIntoChunks applied to any text                          *)
(***************************************************************************)

ChunkInit ==
    /\ text \in Texts
    /\ voiceId = InitialVoiceId
    /\ emotion = InitialEmotion
    /\ speed = Quarters(DEFAULT_SPEED)
    /\ pitch = Quarters(DEFAULT_PITCH)
    /\ Constructed
    /\ normalized = None
    /\ parts = None
    /\ wavBuffer = None
    /\ converted = None

Split ==
    /\ UNCHANGED composerVars
    /\ parts = None
    /\ parts' = Some(splitIntoChunks(text))
    /\ UNCHANGED <<controlVars, viewVars, refVars, flowVars, worldVars>>
    /\ UNCHANGED <<normalized, wavBuffer, converted>>

ChunkNext == Split

ChunkSpec == ChunkInit /\ [][ChunkNext]_vars

(***************************************************************************)
(* ConvertSpec: convertWavToMp3 applied to any buffer                      *)
(***************************************************************************)

\* The buffers hold up to MaxBlocks full blocks of samples for each channel.
MaxBlocks == 2

\* Numbers of 16-bit words after the header: none, a few, and whole numbers
\* of blocks for one and for two channels, exact and with some words over.
SampleCounts ==
    {k * 1152 * c + d : k \in 0..MaxBlocks, c \in {1, 2}, d \in {0, 1, 3}}

\* The words themselves: all different, so that each is told from the others.
Ramp(n) == [k \in 1..n |-> k - 1]
Saw(n) == [k \in 1..n |-> 3 * k - 6000]

\* A buffer of 44 header bytes, n words and `odd` more bytes.
Wav(ch, rate, bits, dlen, words, odd) ==
    Bytes(44 + 2 * Len(words) + odd, ch, rate, bits, dlen, words)

WavBuffers ==
    {Wav(ch, rate, bits, dlen, words, odd) :
        ch \in {1, 2, 3}, rate \in {22050, 44100}, bits \in {8, 16},
        dlen \in {0, 44100},
        words \in {Ramp(n) : n \in SampleCounts} \cup {Saw(n) : n \in SampleCounts},
        odd \in {0, 1}}
    \cup {Wav(ch, 22050, 16, 2 * n, Ramp(n), 0) : ch \in {1, 2}, n \in SampleCounts}
    \cup {Bytes(len, ch, 22050, bits, 0, <<>>) :
            len \in {0, 23, 35, 36, 43}, ch \in {1, 3}, bits \in {8, 16}}

ConvertInit ==
    /\ text = <<>>
    /\ voiceId = InitialVoiceId
    /\ emotion = InitialEmotion
    /\ speed = Quarters(DEFAULT_SPEED)
    /\ pitch = Quarters(DEFAULT_PITCH)
    /\ Constructed
    /\ normalized = None
    /\ parts = None
    /\ wavBuffer \in {Some(b) : b \in WavBuffers}
    /\ converted = None

Convert ==
    /\ UNCHANGED composerVars
    /\ converted = None
    /\ converted' = Some(convertWavToMp3(wavBuffer[1], MP3_BITRATE))
    /\ UNCHANGED <<controlVars, viewVars, refVars, flowVars, worldVars>>
    /\ UNCHANGED <<normalized, parts, wavBuffer>>

ConvertNext == Convert

ConvertSpec == ConvertInit /\ [][ConvertNext]_vars

(***************************************************************************)
(* Claims on the parameter resolver (ResolveSpec)                          *)
(***************************************************************************)

\* C1: for every voice, emotion, user speed and user pitch, inside and
\* outside the sliders' ranges, normalizeOptions returns a speed in [80,360],
\* a pitch in [1,99] and an amplitude in [10,200].
C1_ResolvedInRange ==
    normalized # None =>
        /\ normalized[1].speed \in 80..360
        /\ normalized[1].pitch \in 1..99
        /\ normalized[1].amplitude \in 10..200

\* A speed above the slider's 2.0 and a pitch below the slider's -10 have been
\* resolved, and both results sit on a bound.
C1_Witness ==
    /\ normalized # None
    /\ speed > Quarters(2)
    /\ pitch < Quarters(-10)
    /\ normalized[1].speed = 360
    /\ normalized[1].pitch = 1

\* r is x rounded to the nearest integer, x given as q4 quarters, a half
\* going up: r - 1/2 <= x < r + 1/2.
IsRounded(r, q4) == 4 * r - 2 <= q4 /\ q4 < 4 * r + 2

\* c is r brought into [lo, hi].
IsClamped(c, lo, hi, r) ==
    \/ r < lo /\ c = lo
    \/ r > hi /\ c = hi
    \/ lo <= r /\ r <= hi /\ c = r

\* C2: speed = clamp(80,360, round(175*userSpeed + voice.speedOffset +
\* emotion.speedDelta)), pitch = clamp(1,99, round(50 + 2*userPitch +
\* voice.pitchOffset + emotion.pitchDelta)), amplitude = clamp(10,200, 100 +
\* emotion.amplitudeDelta); a missing offset counts as 0 and the clamp is
\* applied once, to the full sum.
C2_FullSumClampedOnce ==
    normalized # None =>
        LET v == selectedVoice(voiceId)
            e == selectedEmotion(emotion)
            sOff == IF "speedOffset" \in DOMAIN v THEN v.speedOffset ELSE 0
            pOff == IF "pitchOffset" \in DOMAIN v THEN v.pitchOffset ELSE 0
            speedSum4 == 175 * speed + 4 * sOff + 4 * e.speedDelta
            pitchSum4 == 4 * 50 + 2 * pitch + 4 * pOff + 4 * e.pitchDelta
        IN  /\ \E r \in {speedSum4 \div 4, speedSum4 \div 4 + 1} :
                 IsRounded(r, speedSum4) /\ IsClamped(normalized[1].speed, 80, 360, r)
            /\ \E r \in {pitchSum4 \div 4, pitchSum4 \div 4 + 1} :
                 IsRounded(r, pitchSum4) /\ IsClamped(normalized[1].pitch, 1, 99, r)
            /\ IsClamped(normalized[1].amplitude, 10, 200, 100 + e.amplitudeDelta)

\* The user's term alone is beyond the upper bound and the full sum is not,
\* for the speed and for the pitch: clamping the partial sum would show.
C2_Witness ==
    /\ normalized # None
    /\ 175 * speed > Quarters(360)
    /\ normalized[1].speed < 360
    /\ Quarters(50) + 2 * pitch > Quarters(99)
    /\ normalized[1].pitch < 99

\* The default selection has been resolved.
DefaultSelectionResolved ==
    /\ normalized # None
    /\ voiceId = InitialVoiceId
    /\ emotion = InitialEmotion
    /\ speed = Quarters(DEFAULT_SPEED)
    /\ pitch = Quarters(DEFAULT_PITCH)

\* C3 as stated: with the voice selected initially, the neutral emotion,
\* speed 1.0 and pitch 0 the engine is handed speed 175, pitch 50 and
\* amplitude 100.
C3_DefaultsGive175_50_100 ==
    DefaultSelectionResolved =>
        /\ normalized[1].speed = 175
        /\ normalized[1].pitch = 50
        /\ normalized[1].amplitude = 100

\* C3 amended: the voice selected initially is male-deep, whose offsets are
\* -35 and -10; with it, the neutral emotion, speed 1.0 and pitch 0 the
\* engine is handed speed 140, pitch 40 and amplitude 100.
C3_DefaultsGive140_40_100 ==
    DefaultSelectionResolved =>
        /\ normalized[1].speed = 140
        /\ normalized[1].pitch = 40
        /\ normalized[1].amplitude = 100

C3_Witness == DefaultSelectionResolved /\ normalized[1].voiceId = "en/en-wm"

(***************************************************************************)
(* Claims on the chunker (ChunkSpec)                                       *)
(***************************************************************************)

\* C4: a text of at most 4000 characters gives exactly one chunk, the text.
C4_ShortTextOneChunk ==
    (parts # None /\ StrLen(text) <= 4000) => parts[1] = <<text>>

\* A text of exactly 4000 characters that begins with a '.' has been split.
C4_Witness ==
    /\ parts # None
    /\ StrLen(text) = 4000
    /\ Head(text).c \in Punct

\* The 3000-character slicing is what splitIntoChunks returns for s.
FallbackTaken(s) == StrLen(s) > 4000 /\ matchSentences(s) = <<>>

\* C5 as stated: when the 3000-character slicing is not taken, the chunks
\* concatenated in order are the text, character for character.
C5_ConcatReproducesText ==
    (parts # None /\ ~FallbackTaken(text)) => StrJoin(parts[1]) = text

\* A chunk is one sentence unit: none of . ! ? in it, except as its last
\* character.
IsSentenceUnit(chunk) ==
    \A i \in DOMAIN chunk :
        chunk[i].c \in Punct => (i = Len(chunk) /\ chunk[i].n = 1)

\* C6: every chunk has at most 4000 characters, except a chunk that is one
\* single sentence unit of more than 4000 characters, returned whole.
C6_ChunkLengthBound ==
    parts # None =>
        \A i \in DOMAIN parts[1] :
            StrLen(parts[1][i]) <= 4000 \/ IsSentenceUnit(parts[1][i])

\* Several chunks were returned, one of them a sentence of more than 4000
\* characters and another one built from two sentences.
C6_Witness ==
    /\ parts # None
    /\ Len(parts[1]) > 1
    /\ \E i \in DOMAIN parts[1] : StrLen(parts[1][i]) > 4000
    /\ \E i \in DOMAIN parts[1] : ~IsSentenceUnit(parts[1][i])

\* C7 as stated: a non-empty text gives at least one chunk, and every chunk
\* is non-empty after trimming.
C7_ChunksNonEmpty ==
    (parts # None /\ text # <<>>) =>
        /\ Len(parts[1]) > 0
        /\ \A i \in DOMAIN parts[1] : StrLen(StrTrim(parts[1][i])) > 0

\* C8 as stated: a text of more than 4000 characters with none of . ! ? in it
\* is returned as consecutive slices of 3000 characters, the last one
\* possibly shorter.
C8_NoBoundaryMeansSlices ==
    (/\ parts # None
     /\ StrLen(text) > 4000
     /\ \A i \in DOMAIN text : text[i].c \notin Punct)
    => /\ Len(parts[1]) = (StrLen(text) + 2999) \div 3000
       /\ \A i \in DOMAIN parts[1] :
              parts[1][i] = StrSlice(text, 3000 * (i - 1), 3000 * i)


(***************************************************************************)
(* Claims on one request (Spec)                                            *)
(***************************************************************************)

\* The calls made on the engine for request i.
CallsOf(i) == {k \in DOMAIN engineCalls : engineCalls[k].req = i}

\* C9: in synthesizeToMp3, with exactly one chunk the engine receives one
\* single-part speak call for that chunk; with more than one chunk it
\* receives one speakMultipart call whose parts are all the chunks in the
\* chunker's order; no other engine call is made.
C9_CallMatchesChunks ==
    /\ \A k \in DOMAIN engineCalls :
        LET c == engineCalls[k]
        IN  /\ Len(c.chunks) >= 1
            /\ Len(c.chunks) = 1 => (c.method = "speak" /\ c.arg = c.chunks)
            /\ Len(c.chunks) > 1 => (c.method = "speakMultipart" /\ c.arg = c.chunks)
    /\ \A i \in DOMAIN reqs : Cardinality(CallsOf(i)) <= 1

\* The engine has answered request i with null or with an empty array.
EmptyAnswer(i) ==
    /\ reqs[i].output # None
    /\ ~reqs[i].output[1].threw
    /\ \/ reqs[i].output[1].value.isNull
       \/ reqs[i].output[1].value.byteLength = 0

\* C10: when the engine call returns null or an empty sample array, the
\* request ends in a terminal failure: the engine is called exactly once for
\* the request, nothing is encoded and no artifact is produced.
C10_EmptyResultIsTerminal ==
    \A i \in DOMAIN reqs :
        EmptyAnswer(i) =>
            /\ reqs[i].pc = "done"
            /\ reqs[i].outcome = "failed"
            /\ Cardinality(CallsOf(i)) = 1
            /\ reqs[i].result[1].ok = FALSE
            /\ reqs[i].result[1].ops = <<>>
            /\ reqs[i].result[1].blob = None
            /\ reqs[i].url = None
            /\ reqs[i].fileName = None
            /\ generatedAudio = None \/ generatedAudio[1].fileName.stamp # i

\* One request was answered with null and another with an empty array.
C10_Witness ==
    /\ \E i \in DOMAIN reqs :
        EmptyAnswer(i) /\ reqs[i].output[1].value.isNull
    /\ \E i \in DOMAIN reqs :
        EmptyAnswer(i) /\ ~reqs[i].output[1].value.isNull


(***************************************************************************)
(* Claims on convertWavToMp3 (ConvertSpec)                                 *)
(***************************************************************************)

UnsupportedFormat == "Somente amostras PCM 16-bit sao suportadas."
UnsupportedChannelLayout == "Somente audio mono ou estereo e suportado."

\* C11: convertWavToMp3 fails with the unsupported-format error whenever the
\* bit depth of the header is not 16, and with the unsupported-channel-layout
\* error whenever the bit depth is 16 and the channel count of the header is
\* neither 1 nor 2; in both cases it returns no blob and no duration.  (A
\* header is there to read: the buffer holds the bit depth at bytes 34-35
\* and, for the channel layout, all 44 bytes.)
C11_FormatRejection ==
    converted # None =>
        LET b == wavBuffer[1]
            r == converted[1]
        IN  /\ (b.byteLength >= 36 /\ b.bitsPerSample # 16) =>
                  /\ ~r.ok
                  /\ r.error = UnsupportedFormat
                  /\ r.blob = None /\ r.duration = None
            /\ (b.byteLength >= 44 /\ b.bitsPerSample = 16 /\ b.channels \notin {1, 2}) =>
                  /\ ~r.ok
                  /\ r.error = UnsupportedChannelLayout
                  /\ r.blob = None /\ r.duration = None

\* A buffer of 16-bit samples in three channels was refused.
C11_Witness ==
    /\ converted # None
    /\ wavBuffer[1].bitsPerSample = 16
    /\ wavBuffer[1].channels = 3
    /\ Len(wavBuffer[1].words) > 1152
    /\ converted[1].error = UnsupportedChannelLayout

\* C12: when the channel count is invalid, the unsupported-channel-layout
\* failure comes before any operation on the encoder: neither its
\* construction nor an encodeBuffer or flush call has happened.
C12_NoEncoderWorkBeforeChannelFailure ==
    (converted # None /\ converted[1].error = UnsupportedChannelLayout) =>
        converted[1].ops = <<>>

\* The samples of channel c (1 or 2) of a buffer of ch channels.
Channel(b, ch, c) ==
    [j \in 1..(((b.byteLength - 44) \div 2) \div ch) |-> b.words[ch * (j - 1) + c]]

RECURSIVE Flat(_)
\* The concatenation of a sequence of sequences.
Flat(seqs) ==
    IF seqs = <<>> THEN <<>> ELSE Head(seqs) \o Flat(Tail(seqs))

\* The number of blocks of 1152 that n samples make.
Blocks(n) == (n + 1151) \div 1152

\* C13: for a valid PCM buffer, convertWavToMp3 feeds the encoder consecutive
\* blocks of 1152 samples per channel in ascending order (only the last may
\* be shorter), then calls flush exactly once and never encodeBuffer after
\* it; the output bytes are the concatenation, in call order, of the outputs
\* of the encoder, that of flush included.
C13_BlocksThenFlush ==
    (converted # None /\ converted[1].ok) =>
        LET b == wavBuffer[1]
            ops == converted[1].ops
            first == Channel(b, b.channels, 1)
            n == Blocks(Len(first))
        IN  /\ Len(ops) = n + 2
            /\ ops[1] = [op |-> "new", channels |-> b.channels,
                         sampleRate |-> b.sampleRate, bitrate |-> 320]
            /\ ops[n + 2].op = "flush"
            /\ \A k \in 1..n :
                /\ ops[k + 1].op = "encodeBuffer"
                /\ ops[k + 1].from = 1152 * (k - 1)
                /\ ops[k + 1].left =
                     SubSeq(first, 1152 * (k - 1) + 1, Min2(1152 * k, Len(first)))
                /\ k < n => Len(ops[k + 1].left) = 1152
                /\ Len(ops[k + 1].left) >= 1
            /\ converted[1].blob[1].type = "audio/mpeg"
            /\ converted[1].blob[1].bytes =
                 [i \in 1..Len(Flat([k \in 1..(n + 1) |-> ops[k + 1].out])) |->
                    Flat([k \in 1..(n + 1) |-> ops[k + 1].out])[i] % 256]

\* Two full blocks and a shorter one were encoded, and both encodeBuffer and
\* flush gave bytes out.
C13_Witness ==
    /\ converted # None /\ converted[1].ok
    /\ Len(converted[1].ops) = 5
    /\ Len(converted[1].ops[4].left) < 1152
    /\ converted[1].ops[2].out # <<>>
    /\ converted[1].ops[5].out # <<>>
    /\ Len(converted[1].blob[1].bytes) = 6

\* C14: for a stereo buffer of interleaved samples [L0,R0,L1,R1,...], the
\* left array fed to the encoder is [L0,L1,...] and the right array is
\* [R0,R1,...], each of half the length of the samples; in every encodeBuffer
\* call the left and the right block have the same length and cover the same
\* indexes.
C14_StereoDeinterleaved ==
    (converted # None /\ converted[1].ok /\ wavBuffer[1].channels = 2) =>
        LET b == wavBuffer[1]
            ops == converted[1].ops
            L == Channel(b, 2, 1)
            R == Channel(b, 2, 2)
            calls == SubSeq(ops, 2, Len(ops) - 1)
        IN  /\ Len(L) = ((b.byteLength - 44) \div 2) \div 2
            /\ Len(R) = Len(L)
            /\ \A k \in DOMAIN calls :
                /\ calls[k].right # None
                /\ Len(calls[k].left) = Len(calls[k].right[1])
                /\ calls[k].left =
                     SubSeq(L, calls[k].from + 1, calls[k].from + Len(calls[k].left))
                /\ calls[k].right[1] =
                     SubSeq(R, calls[k].from + 1, calls[k].from + Len(calls[k].left))
            /\ Flat([k \in DOMAIN calls |-> calls[k].left]) = L
            /\ Flat([k \in DOMAIN calls |-> calls[k].right[1]]) = R

\* A stereo buffer of more than two blocks for each channel was encoded.
C14_Witness ==
    /\ converted # None /\ converted[1].ok
    /\ wavBuffer[1].channels = 2
    /\ Len(wavBuffer[1].words) = 2 * 1152 * 2
    /\ Len(converted[1].ops) = 4
    /\ converted[1].ops[3].right[1][1] = wavBuffer[1].words[2 * 1152 + 2]

\* C15: the duration convertWavToMp3 returns is headerDataLength /
\* (sampleRate * channels * 2), with the payload length of the header and not
\* the length of the samples in memory; a header length of 44100, mono, at
\* 22050 Hz gives exactly one second.
C15_DurationFromHeader ==
    (converted # None /\ converted[1].ok) =>
        LET b == wavBuffer[1]
            d == converted[1].duration[1]
        IN  /\ d[2] # 0
            /\ d[1] = b.dataLength
            /\ d[2] = b.sampleRate * b.channels * 2
            /\ (b.dataLength = 44100 /\ b.channels = 1 /\ b.sampleRate = 22050)
                  => d[1] = d[2]

\* A mono buffer at 22050 Hz whose header says 44100 bytes and which holds
\* fewer was converted.
C15_Witness ==
    /\ converted # None /\ converted[1].ok
    /\ wavBuffer[1].dataLength = 44100
    /\ wavBuffer[1].channels = 1
    /\ wavBuffer[1].sampleRate = 22050
    /\ 2 * Len(wavBuffer[1].words) < 44100
    /\ Len(wavBuffer[1].words) > 0


(***************************************************************************)
(* Claims on the module (Spec)                                             *)
(***************************************************************************)

\* The engine has answered request i with something the pipeline refuses,
\* or has thrown.
BadAnswer(i) ==
    /\ reqs[i].output # None
    /\ LET out == reqs[i].output[1]
       IN  \/ out.threw
           \/ out.value.isNull
           \/ out.value.byteLength < 44
           \/ out.value.bitsPerSample # 16
           \/ out.value.channels \notin {1, 2}

\* Request i has failed at some stage.
Failing(i) ==
    \/ reqs[i].outcome \in {"refused", "rejected", "failed"}
    \/ BadAnswer(i)

\* Nothing of request i is to be seen.
NoArtifactOf(i) ==
    /\ reqs[i].url = None
    /\ reqs[i].fileName = None
    /\ audioFileName = None \/ audioFileName[1].stamp # i
    /\ generatedAudio = None \/ generatedAudio[1].fileName.stamp # i

\* C16: if any stage of a generate request fails (engine missing, engine
\* returned nothing, bad bit depth, bad channel count), no artifact is emitted
\* for it: the step in which it fails creates no object URL, leaves audioUrl,
\* audioFileName and audioDuration as they were and does not call
\* onAudioReady, and nothing of the request is to be seen afterwards.
C16_NoArtifactOnFailure ==
    [][\A i \in DOMAIN reqs' :
          Failing(i)' =>
              /\ NoArtifactOf(i)'
              /\ (i \notin DOMAIN reqs \/ ~Failing(i)) =>
                    UNCHANGED <<audioUrl, audioFileName, audioDuration,
                                urlsCreated, generatedAudio>>]_vars

\* A request succeeded, and a later one failed on samples of 8 bits: the
\* audio of the first one is still the one shown.
C16_Witness ==
    \E i, j \in DOMAIN reqs :
        /\ reqs[i].outcome = "ok"
        /\ reqs[j].outcome = "failed"
        /\ BadAnswer(j) /\ ~reqs[j].output[1].threw
        /\ reqs[j].output[1].value.bitsPerSample = 8
        /\ audioUrl = reqs[i].url
        /\ audioFileName = reqs[i].fileName
        /\ urlsCreated = 1
        /\ generatedAudio # None

\* The messages handleGenerateAudio sets.
RequestMessages ==
    {"Insira um texto para realizar a conversao.",
     "O texto excede o limite de 100.000 caracteres.",
     GenericError}

\* C17: every failing generate request, one issued after the initialization
\* of the engine has failed included, ends with an error message set by that
\* request and with isProcessing false.
C17_FailureShowsItsMessage ==
    [][\A i \in DOMAIN reqs' :
          (/\ reqs'[i].outcome \in {"refused", "rejected", "failed"}
           /\ (i \notin DOMAIN reqs \/ reqs[i].outcome = "none"))
          => (error' \in RequestMessages /\ ~isProcessing')]_vars

\* C18: a text longer than 100,000 characters never enters the pipeline:
\* after any handleTextChange calls the stored text has at most 100,000
\* characters, so has the text of every request and of every engine call,
\* and handleGenerateAudio refuses a longer text with the too-large error.
C18_TextCapped ==
    /\ StrLen(text) <= 100000
    /\ \A i \in DOMAIN reqs : StrLen(reqs[i].text) <= 100000
    /\ \A k \in DOMAIN engineCalls :
        \A j \in DOMAIN engineCalls[k].arg : StrLen(engineCalls[k].arg[j]) <= 100000
    /\ \A n \in {100001, 100002, 200000} :
        /\ refusal(<<Run("a", n)>>) = Some("O texto excede o limite de 100.000 caracteres.")
        /\ refusal(<<Run("a", 1), Run(" ", n)>>)
             = Some("O texto excede o limite de 100.000 caracteres.")

\* A value of 100,001 characters was stored cut to 100,000, and a request
\* gave the cut text to the engine.
C18_Witness ==
    /\ text = <<Run("a", 100000)>>
    /\ \E k \in DOMAIN engineCalls : engineCalls[k].arg = << <<Run("a", 100000)>> >>

\* C19: under any interleaving of the callers of initializeEngine (the mount
\* effect and the generate requests), the configuration and the voices are
\* loaded exactly once, and every caller gets the same readiness promise: no
\* call starts a new initialization.
C19_OneInitialization ==
    /\ engineInits <= 1
    /\ engineLoads <= 1
    /\ mounted # "rendered" => engineInits = 1
    /\ initPc \in {"wait", "done"} => engineLoads = 1
    /\ \A i \in DOMAIN reqs : reqs[i].outcome # "refused" => reqs[i].ready = 1

\* Two requests were issued while the initialization was pending, and it
\* has completed.
C19_Witness ==
    /\ Len(reqs) = 2
    /\ \A i \in DOMAIN reqs : reqs[i].ready = 1 /\ reqs[i].pc \notin {"start", "awaitEngine"}
    /\ \A i \in DOMAIN reqs : reqs[i].outcome # "rejected"
    /\ \E i, j \in DOMAIN reqs : i # j /\ reqs[i].interval /\ reqs[j].interval
    /\ initPc = "done"
    /\ engineLoads = 1

\* Request i is neither finished nor abandoned.
InFlight(i) == reqs[i].pc \in {"awaitEngine", "awaitExecute", "awaitWait"}

\* C20: every artifact URL the module creates is released once it is
\* superseded or the module unmounts, also when a later request fails and
\* when the module unmounts with a request in flight: with the module
\* unmounted and no request in flight, when no step is left that revokes
\* anything, no created URL is left un-revoked.
C20_UrlsRevoked ==
    (mounted = "unmounted" /\ \A i \in DOMAIN reqs : ~InFlight(i)) =>
        \A u \in 1..urlsCreated : u \in urlsRevoked


ResolvedAtStart(q) ==
    normalizeOptions(selectedVoice(q.voice), q.speed, q.pitch,
                     selectedEmotion(q.emotion))

\* The text given to the engine by call c, whole or in parts.
TextOfCall(c) == IF c.method = "speak" THEN c.arg[1] ELSE c.chunks

\* C21: the text, voice, emotion, speed and pitch of a synthesis request are
\* read once, when the request is started: a change of a control while the
\* request waits for the engine or runs changes neither what the request
\* holds nor the text and the parameters handed to the engine for it.
C21_ReadOnceAtStart ==
    [][/\ \A i \in DOMAIN reqs :
            /\ reqs'[i].text = reqs[i].text
            /\ reqs'[i].voice = reqs[i].voice
            /\ reqs'[i].emotion = reqs[i].emotion
            /\ reqs'[i].speed = reqs[i].speed
            /\ reqs'[i].pitch = reqs[i].pitch
       /\ \A i \in DOMAIN reqs' \ DOMAIN reqs :
            /\ reqs'[i].text = text /\ reqs'[i].voice = voiceId
            /\ reqs'[i].emotion = emotion
            /\ reqs'[i].speed = speed /\ reqs'[i].pitch = pitch
       /\ \A k \in DOMAIN engineCalls' :
            LET c == engineCalls'[k]
                r == ResolvedAtStart(reqs'[c.req])
            IN  /\ TextOfCall(c) = IF c.method = "speak" THEN reqs'[c.req].text
                                   ELSE splitIntoChunks(reqs'[c.req].text)
                /\ c.options = [rawdata |-> "array", voice |-> r.voiceId,
                                variant |-> r.variant, speed |-> r.speed,
                                pitch |-> r.pitch, amplitude |-> r.amplitude]]_vars

\* The engine was called for a request after the text had been changed
\* since its start.
C21_Witness ==
    \E k \in DOMAIN engineCalls :
        LET i == engineCalls[k].req
        IN  /\ reqs[i].text # text
            /\ text # <<>>
            /\ reqs[i].pc = "awaitWait"
            /\ Cardinality(CallsOf(i)) = 1
            /\ Len(reqs) = 1

\* C23: at most one synthesis request is in flight at any time: under any
\* interleaving of clicks on the generate button, clicks made while a request
\* awaits the initialization of the engine included, a second request never
\* starts its engine call before the first request has finished.
C23_OneRequestInFlight ==
    /\ Cardinality({i \in DOMAIN reqs : reqs[i].pc \in {"awaitExecute", "awaitWait"}}) <= 1
    /\ \A i, j \in DOMAIN reqs :
        (i < j /\ CallsOf(j) # {}) => reqs[i].pc = "done"

\* C24: while the TextToSpeechModule is mounted, the audio the page holds and
\* passes to the VideoComposer (the last value given to onAudioReady) never
\* refers to an object URL that has been revoked, in every state between the
\* start and the end of a later successful request too.
C24_PageAudioNotRevoked ==
    (mounted = "mounted" /\ generatedAudio # None) =>
        generatedAudio[1].url \notin urlsRevoked

\* C26: during one generate request the displayed progress never decreases:
\* it starts at 3, is at most 95 while the pipeline runs, and once set to 100
\* on success it stays 100 until isProcessing becomes false.
C26_ProgressMonotonic ==
    [][/\ (~isProcessing /\ isProcessing') => progress' = 3
       /\ (isProcessing /\ isProcessing') => progress' >= progress
       /\ (isProcessing /\ isProcessing' /\ progress = 100) => progress' = 100
       /\ (isProcessing' /\ \A i \in DOMAIN reqs' : reqs'[i].pc # "awaitWait")
             => progress' <= 95]_vars


\* Request i has set isProcessing and its interval, and has not ended.
Processing(i) == i \in DOMAIN reqs /\ reqs[i].interval

\* Request i has ended, its interval is cleared and isProcessing is false.
EndedIdle(i) ==
    /\ i \in DOMAIN reqs
    /\ reqs[i].pc = "done"
    /\ ~reqs[i].interval
    /\ ~isProcessing

\* C25: every generate request that has set isProcessing to true eventually
\* sets it back to false and clears its progress interval, on success and on
\* every failure; no interval of a request that has ended is left to fire.
C25_ProcessingEnds ==
    /\ [](\A i \in DOMAIN reqs : reqs[i].pc = "done" => ~reqs[i].interval)
    /\ \A i \in 1..MaxRequests : Processing(i) ~> EndedIdle(i)

\* One request has ended in success and another in a failure after both had
\* set isProcessing.
C25_Witness ==
    \E i, j \in DOMAIN reqs :
        /\ reqs[i].outcome = "ok"
        /\ reqs[j].outcome = "failed" /\ reqs[j].output # None
        /\ ~isProcessing
        /\ ~reqs[i].interval /\ ~reqs[j].interval

(***************************************************************************)
(* VideoComposer: the timeline and the preview                             *)
(***************************************************************************)

\* C27: whenever the timeline is not empty, activeClipIndex is an index of
\* it: 0 <= activeClipIndex < timeline length.
C27_ActiveClipIndexValid ==
    timeline # <<>> => (0 <= activeClipIndex /\ activeClipIndex < Len(timeline))

\* C28: every clip of the timeline has a duration in [1,120] seconds, the
\* range of the duration slider, whatever the duration of the narration.
C28_DurationInSliderRange ==
    \A k \in DOMAIN timeline : 1 <= timeline[k].duration /\ timeline[k].duration <= 120

\* The ids of the media items of a library.
mediaIdsOf(library) == {library[k] : k \in DOMAIN library}

\* C29: every clip of the timeline shows a media item of the library, so
\* that no clip outlives its media item, and the selected media id is null
\* or the id of a media item of the library.
C29_ClipsAndSelectionInLibrary ==
    /\ \A k \in DOMAIN timeline : timeline[k].mediaId \in mediaIdsOf(mediaLibrary)
    /\ timelineWithMedia(timeline, mediaLibrary) = timeline
    /\ selectedMediaId = None \/ selectedMediaId[1] \in mediaIdsOf(mediaLibrary)

\* Two files were dropped, a clip was added for each of them, and one of the
\* media items was removed with its clip.
C29_Witness ==
    /\ operations = 4
    /\ mediaIds = 2
    /\ clipIds = 2
    /\ Len(mediaLibrary) = 1
    /\ Len(timeline) = 1
    /\ timeline[1].mediaId = mediaLibrary[1]

\* The timers of clips among the timers ts.
clipTimers(ts) == {t \in ts : t.kind = "clip"}

\* While a preview runs exactly one timer is pending for a clip, the one of
\* the active clip, and while none runs no timer of a clip is pending.
OneClipAtATime ==
    IF isPreviewing
    THEN /\ timeline # <<>>
         /\ clipTimers(timers) = {clipTimer(activeClipIndex, Len(timeline))}
    ELSE clipTimers(timers) = {}

\* The steps of a preview: it starts at the clip of index 0; the timer of a
\* clip that is not the last makes the next clip the active one; the timer
\* of the last clip stops the preview; removing the only clip stops it.
PreviewSteps ==
    /\ (~isPreviewing /\ isPreviewing') => activeClipIndex' = 0
    /\ \A t \in timers :
            ClipTimerFires(t) =>
                IF t.index + 1 < Len(timeline)
                THEN isPreviewing' /\ activeClipIndex' = t.index + 1
                ELSE ~isPreviewing' /\ clipTimers(timers') = {}
    /\ (handleRemoveClip /\ isPreviewing /\ Len(timeline) = 1) =>
            (~isPreviewing' /\ timers' \subseteq {resetTimer})

\* C30 as stated: once the timer of the last clip has fired no timer that
\* the preview has set is pending.
C30_NoTimerLeftPending ==
    [][\A t \in timers :
            (ClipTimerFires(t) /\ ~(t.index + 1 < t.length)) => timers' = {}]_vars

\* C30: a preview started on a timeline that is not empty makes the clips
\* active one at a time, in the order of the timeline from index 0; the
\* timer of the last clip stops it and leaves no timer of a clip pending,
\* only the timer of 300 ms that sets the progress back to 0; removing the
\* only clip during a preview stops it; and a preview that is left alone
\* comes to its end.
C30_PreviewRunsAndStops ==
    /\ []OneClipAtATime
    /\ [][PreviewSteps]_vars
    /\ [][\A t \in timers :
            (ClipTimerFires(t) /\ ~(t.index + 1 < t.length)) =>
                timers' = {resetTimer}]_vars
    /\ isPreviewing ~> ~isPreviewing

\* A preview of two clips or more has run to its end: the last clip is the
\* active one, the progress is 100 and the timer of 300 ms is pending.
C30_Witness ==
    /\ Len(timeline) >= 2
    /\ ~isPreviewing
    /\ activeClipIndex = Len(timeline) - 1
    /\ previewProgress = 100
    /\ resetTimer \in timers

====
